---------------------------- MODULE Spec2Model ----------------------------
(***************************************************************************)
(* A model of the tio effect runtime (brkaisin/tio):                       *)
(*   - FiberContext (src/src/tio/tag.ts, class FiberContext), as pure      *)
(*     operators on a fiber record, driven by a harness that calls its     *)
(*     methods in any order, also re-entrantly from observer callbacks     *)
(*     (specification Spec);                                               *)
(*   - PromiseRuntime.interpret (src/src/tio/runtime.ts) over a model of   *)
(*     the JavaScript job queue, promises and timers (specification        *)
(*     SpecRun; SpecEntry runs the program by each entry point, SpecTwice  *)
(*     runs it again, SpecLaws and SpecTimeout compare the runs of two     *)
(*     programs, SpecRunFair adds that the event loop runs a pending job); *)
(*   - the service registry of the runtimes (specification SpecServices);  *)
(*   - the functions of cause.ts on cause trees (specification SpecCause)  *)
(*     and makeFiberId (specification SpecIds).                            *)
(***************************************************************************)
EXTENDS Integers, Sequences, FiniteSets, TLC

(***************************************************************************)
(* Bounds of the harness.                                                  *)
(***************************************************************************)
MaxRegs == 3
MaxUnsub == 2

(***************************************************************************)
(* Cause and FiberExit constructors.                                       *)
(***************************************************************************)
causeFail(error) == [tag |-> "Fail", error |-> error]

causeEmpty == [tag |-> "Empty"]

causeDie(defect) == [tag |-> "Die", defect |-> defect]

\* A sequential that builds a Then node whatever its arguments are.
sequential_keepsEmpty(left, right) == [tag |-> "Then", left |-> left, right |-> right]

sequential(left, right) ==
    IF left.tag = "Empty" THEN right
    ELSE IF right.tag = "Empty" THEN left
    ELSE [tag |-> "Then", left |-> left, right |-> right]

\* A both that builds a Both node whatever its arguments are.
both_keepsEmpty(left, right) == [tag |-> "Both", left |-> left, right |-> right]

both(left, right) ==
    IF left.tag = "Empty" THEN right
    ELSE IF right.tag = "Empty" THEN left
    ELSE [tag |-> "Both", left |-> left, right |-> right]

causeInterrupt(fiberId) == [tag |-> "Interrupt", fiberId |-> fiberId]

fiberSuccess(value) == [tag |-> "Success", value |-> value]

fiberFailure(cause) == [tag |-> "Failure", cause |-> cause]

StatusRunning == [tag |-> "Running"]

StatusSuspended == [tag |-> "Suspended"]

StatusDone(exit) == [tag |-> "Done", exit |-> exit]

(***************************************************************************)
(* Array helpers with JavaScript's conventions: indexOf is 0-based and     *)
(* yields -1 when the element is absent; splice(idx, 1) removes one        *)
(* element.                                                                *)
(***************************************************************************)
indexOf(s, x) ==
    IF \E i \in 1..Len(s) : s[i] = x
    THEN (CHOOSE i \in 1..Len(s) : s[i] = x /\ \A j \in 1..(i - 1) : s[j] /= x) - 1
    ELSE -1

splice1(s, idx) == [i \in 1..(Len(s) - 1) |-> IF i <= idx THEN s[i] ELSE s[i + 1]]

(***************************************************************************)
(* FiberContext.  A fiber is a record; every method is an operator that    *)
(* yields the fiber after the call and "notify", the observers the method  *)
(* invokes, in the order it invokes them, each with the exit it is given.  *)
(***************************************************************************)
NewFiberContext(id) ==
    [id |-> id, status |-> StatusRunning, observers |-> <<>>,
     interrupted |-> FALSE, interruptible |-> TRUE]

Notification(cb, exit) == [cb |-> cb, exit |-> exit]

\* A done without the first-writer-wins guard.
done_noGuard(fc, exit) ==
    [fc |-> [fc EXCEPT !.status = StatusDone(exit), !.observers = <<>>],
     notify |-> [i \in 1..Len(fc.observers) |-> Notification(fc.observers[i], exit)]]

done(fc, exit) ==
    IF fc.status.tag = "Done"
    THEN [fc |-> fc, notify |-> <<>>]
    ELSE [fc |-> [fc EXCEPT !.status = StatusDone(exit), !.observers = <<>>],
          notify |-> [i \in 1..Len(fc.observers) |-> Notification(fc.observers[i], exit)]]

\* An unsafeAddObserver that appends the callback whatever the status.
unsafeAddObserver_noDoneCheck(fc, callback) ==
    [fc |-> [fc EXCEPT !.observers = Append(@, callback)],
     notify |-> <<>>, noop |-> FALSE]

\* "noop" tells which of the two closures is returned: () => {} or the
\* one that removes the callback.
unsafeAddObserver(fc, callback) ==
    IF fc.status.tag = "Done"
    THEN [fc |-> fc, notify |-> <<Notification(callback, fc.status.exit)>>, noop |-> TRUE]
    ELSE [fc |-> [fc EXCEPT !.observers = Append(@, callback)],
          notify |-> <<>>, noop |-> FALSE]

\* The closure returned by unsafeAddObserver on a fiber that is not Done.
unsubscribe(fc, callback) ==
    LET idx == indexOf(fc.observers, callback)
    IN  IF idx >= 0 THEN [fc EXCEPT !.observers = splice1(@, idx)] ELSE fc

\* An unsafeInterrupt that latches the flag and never completes the fiber.
unsafeInterrupt_noDone(fc) ==
    IF fc.interrupted
    THEN [fc |-> fc, notify |-> <<>>]
    ELSE [fc |-> [fc EXCEPT !.interrupted = TRUE], notify |-> <<>>]

unsafeInterrupt(fc) ==
    IF fc.interrupted
    THEN [fc |-> fc, notify |-> <<>>]
    ELSE LET fc1 == [fc EXCEPT !.interrupted = TRUE]
         IN  IF fc1.interruptible /\ fc1.status.tag /= "Done"
             THEN done(fc1, fiberFailure(causeInterrupt(fc1.id)))
             ELSE [fc |-> fc1, notify |-> <<>>]

\* An unsafeStatus that answers Running whatever the status is.
unsafeStatus_alwaysRunning(fc) == StatusRunning

unsafeStatus(fc) == fc.status

(***************************************************************************)
(* The harness: one FiberContext and a caller of its methods.              *)
(*   fc        the FiberContext                                            *)
(*   draining  what is left of the for-loop of the running done: the       *)
(*             observers it has still to invoke (the local array)          *)
(*   inObs     an observer invoked by that loop is executing, so the next  *)
(*             method call is made from inside it                          *)
(*   obsRegs   for each element of fc.observers, the unsafeAddObserver     *)
(*             call that pushed it                                         *)
(*   regs      the unsafeAddObserver calls made so far                     *)
(*   calls     the observer invocations made so far                        *)
(*   unsubCount how often each returned unsubscribe has been called        *)
(*   lastOp    the last method call; tick tells two equal calls apart      *)
(***************************************************************************)
VARIABLES fc, draining, inObs, obsRegs, regs, calls, unsubCount, lastOp

hvars == <<fc, draining, inObs, obsRegs, regs, calls, unsubCount, lastOp>>

(***************************************************************************)
(* The runtime: one run of a program by PromiseRuntime.                    *)
(*   program    the effect description handed to unsafeRun                 *)
(*   main       the promise unsafeRun returned (0 before the run starts)   *)
(*   promises   the promises created so far: state, value, the reactions   *)
(*              registered by then/catch; at and tick tell when a promise  *)
(*              was settled (created, while it is pending)                 *)
(*   microtasks the job queue (promise reaction jobs, queueMicrotask)      *)
(*   timers     the pending setTimeout callbacks                           *)
(*   fibers     the FiberContexts created by Fork; the fiber with id i is  *)
(*              fibers[i + 1]                                              *)
(*   effects    the side effects executed by Sync functions, in order      *)
(*   now        the clock, in ms since the start of the run                *)
(*   tick       the number of tasks and jobs run so far                    *)
(*   decided    the raceFirst promises whose winner is known               *)
(*   fghost     per fiber: the tick of its Fork, the tick at which its     *)
(*              effect began to be interpreted (0: not yet), the promise   *)
(*              of its effect, the promise the Fork returned, the exits    *)
(*              that the handlers of Fork have handed to done              *)
(*   waits      the joinFiber / awaitFiber / interruptFiber started        *)
(*   races      the race / raceFirst started                               *)
(*   alls       the Promise.all started: result, slots, missing values     *)
(*   attempts   the counter that the retried effects increment             *)
(*   ensurings  the Ensuring started: child, result, finalizer starts      *)
(*   asyncs     the Async started: result, calls of register               *)
(*   folds      the calls of error handlers of FoldM                       *)
(*   entry      the entry point of the runtime that runs the program       *)
(*   result     the promise the entry point returned (0 before the run)    *)
(*   runs       the runs of the program started so far, each with the      *)
(*              number of side effects executed before it                  *)
(***************************************************************************)
VARIABLES program, main, promises, microtasks, timers, fibers, effects, now, tick,
          decided, fghost, waits, races, alls, attempts, ensurings, asyncs, folds,
          entry, result, runs

rvars == <<program, main, promises, microtasks, timers, fibers, effects, now, tick,
           decided, fghost, waits, races, alls, attempts, ensurings, asyncs, folds,
           entry, result, runs>>

(***************************************************************************)
(* The runtimes of the process and their service registries.               *)
(*   runtimes   the PromiseRuntime objects created so far, each the        *)
(*              services record it holds; runtimes[1] is defaultRuntime    *)
(*   provided   the provideService calls made so far: receiver, tag,       *)
(*              service, the receiver's registry at the call, the result   *)
(*   seen       the registries that effects run so far were handed         *)
(***************************************************************************)
VARIABLES runtimes, provided, seen

lvars == <<runtimes, provided, seen>>

(***************************************************************************)
(* The functions of the library, applied to inputs outside a run.          *)
(*   input      the arguments drawn for the functions                      *)
(*   output     the results of the functions applied so far                *)
(*   fiberIdCounter  the counter of makeFiberId                            *)
(*   fiberIds   the ids handed out so far, each with the caller that got   *)
(*              it                                                         *)
(***************************************************************************)
VARIABLES input, output, fiberIdCounter, fiberIds

pvars == <<input, output, fiberIdCounter, fiberIds>>

vars == <<hvars, rvars, lvars, pvars>>

SelfId == 0

\* The services record of defaultRuntime: {}.
EmptyServices == [id \in {} |-> 0]

CallbackIds == {"cbA", "cbB"}

ExitSet == {fiberSuccess(42), fiberSuccess(100)}

HInit ==
    /\ fc = NewFiberContext(SelfId)
    /\ draining = <<>>
    /\ inObs = FALSE
    /\ obsRegs = <<>>
    /\ regs = <<>>
    /\ calls = <<>>
    /\ unsubCount = <<>>
    /\ lastOp = [op |-> "new", tick |-> 0]

\* A method can be called from the top level, or from inside an observer
\* that the loop of done is executing.
CanCall == draining = <<>> \/ inObs

RECURSIVE SumSeq(_)
SumSeq(s) == IF s = <<>> THEN 0 ELSE Head(s) + SumSeq(Tail(s))

Tick == 1 - lastOp.tick

\* The loop entries of a done that notifies the observers registered by regsOf.
Entries(notify, regsOf) ==
    [i \in 1..Len(notify) |-> [cb |-> notify[i].cb, exit |-> notify[i].exit, reg |-> regsOf[i]]]

CallDone(exit) ==
    /\ CanCall
    /\ LET r == done(fc, exit)
       IN  /\ fc' = r.fc
           /\ draining' = Entries(r.notify, obsRegs) \o draining
           /\ inObs' = IF r.notify = <<>> THEN inObs ELSE FALSE
           /\ obsRegs' = [i \in 1..Len(r.fc.observers) |-> obsRegs[i]]
    /\ lastOp' = [op |-> "done", tick |-> Tick, arg |-> exit]
    /\ UNCHANGED <<regs, calls, unsubCount>>
    /\ UNCHANGED <<rvars, lvars, pvars>>

CallInterrupt ==
    /\ CanCall
    /\ LET r == unsafeInterrupt(fc)
       IN  /\ fc' = r.fc
           /\ draining' = Entries(r.notify, obsRegs) \o draining
           /\ inObs' = IF r.notify = <<>> THEN inObs ELSE FALSE
           /\ obsRegs' = [i \in 1..Len(r.fc.observers) |-> obsRegs[i]]
    /\ lastOp' = [op |-> "interrupt", tick |-> Tick, was |-> fc.interrupted]
    /\ UNCHANGED <<regs, calls, unsubCount>>
    /\ UNCHANGED <<rvars, lvars, pvars>>

\* The next iteration of the for-loop of done: observer(exit).
ObserverStep ==
    /\ draining /= <<>>
    /\ calls' = Append(calls, Head(draining))
    /\ draining' = Tail(draining)
    /\ inObs' = TRUE
    /\ UNCHANGED <<fc, obsRegs, regs, unsubCount, lastOp>>
    /\ UNCHANGED <<rvars, lvars, pvars>>

CallAddObserver(cb) ==
    /\ CanCall
    /\ Len(regs) < MaxRegs
    /\ LET r == unsafeAddObserver(fc, cb)
           reg == Len(regs) + 1
       IN  /\ fc' = r.fc
           /\ obsRegs' = IF Len(r.fc.observers) > Len(fc.observers)
                         THEN Append(obsRegs, reg) ELSE obsRegs
           /\ calls' = calls \o Entries(r.notify, [i \in 1..Len(r.notify) |-> reg])
           /\ regs' = Append(regs, [cb |-> cb, noop |-> r.noop,
                                    atDone |-> fc.status.tag = "Done",
                                    unsubEarly |-> FALSE])
           /\ unsubCount' = Append(unsubCount, 0)
           /\ lastOp' = [op |-> "addObserver", tick |-> Tick, reg |-> reg]
    /\ UNCHANGED <<draining, inObs>>
    /\ UNCHANGED <<rvars, lvars, pvars>>

CallUnsubscribe(reg) ==
    /\ CanCall
    /\ SumSeq(unsubCount) < MaxUnsub
    /\ IF regs[reg].noop
       THEN UNCHANGED <<fc, obsRegs>>
       ELSE LET idx == indexOf(fc.observers, regs[reg].cb)
            IN  /\ fc' = unsubscribe(fc, regs[reg].cb)
                /\ obsRegs' = IF idx >= 0 THEN splice1(obsRegs, idx) ELSE obsRegs
    /\ unsubCount' = [unsubCount EXCEPT ![reg] = @ + 1]
    /\ regs' = [regs EXCEPT ![reg].unsubEarly = @ \/ fc.status.tag /= "Done"]
    /\ lastOp' = [op |-> "unsubscribe", tick |-> Tick, reg |-> reg]
    /\ UNCHANGED <<draining, inObs, calls>>
    /\ UNCHANGED <<rvars, lvars, pvars>>

HNext ==
    \/ \E exit \in ExitSet : CallDone(exit)
    \/ CallInterrupt
    \/ ObserverStep
    \/ \E cb \in CallbackIds : CallAddObserver(cb)
    \/ \E reg \in 1..Len(regs) : CallUnsubscribe(reg)

(***************************************************************************)
(* Properties of the FiberContext, checked under Spec.                     *)
(***************************************************************************)
CallsOf(reg) == Cardinality({i \in 1..Len(calls) : calls[i].reg = reg})

IsStep(op) == lastOp'.op = op /\ lastOp'.tick /= lastOp.tick

InterruptExit == fiberFailure(causeInterrupt(SelfId))

\* C1: once the status is Done(e0) it stays Done(e0): no later done(e1) or
\* unsafeInterrupt(), made from the top level or from inside an observer,
\* changes the status or the stored exit.
C1_DoneIsStable == [][fc.status.tag = "Done" => fc'.status = fc.status]_vars

\* A done(e1) with e1 /= e0 was made from inside an observer of the running
\* loop and the status is still Done(e0).
C1_Witness ==
    /\ lastOp.op = "done"
    /\ fc.status.tag = "Done"
    /\ lastOp.arg /= fc.status.exit
    /\ inObs
    /\ draining /= <<>>

\* An observer counts as not unsubscribed when no unsubscribe returned for
\* its callback was called before the fiber became Done.
Eligible(reg) ==
    /\ ~regs[reg].atDone
    /\ \A q \in 1..Len(regs) : regs[q].cb = regs[reg].cb => ~regs[q].unsubEarly

C3_AddObserverWhenDone ==
    [][/\ fc'.status.tag = "Done" => fc'.observers = <<>>
       /\ \A r \in 1..Len(regs') :
             regs'[r].atDone =>
                 /\ regs'[r].noop
                 /\ CallsOf(r)' = 1
                 /\ \A i \in 1..Len(calls') :
                       calls'[i].reg = r => calls'[i].exit = fc'.status.exit
       /\ (IsStep("unsubscribe") /\ regs[lastOp'.reg].atDone)
             => UNCHANGED <<fc, obsRegs, draining, calls>>]_vars

\* An observer was added to a Done fiber and its unsubscribe has been called.
C3_Witness ==
    \E r \in 1..Len(regs) : regs[r].atDone /\ unsubCount[r] > 0 /\ CallsOf(r) = 1

\* C4: once the unsubscribe of a registration has been called, that
\* registration is never invoked afterwards (stated for callbacks that are
\* registered once, so that the registration is the callback's only one).
C4_UnsubscribedNeverInvoked ==
    [][\A r \in 1..Len(regs) :
          (/\ unsubCount[r] > 0
           /\ \A q \in 1..Len(regs) : regs[q].cb = regs[r].cb => q = r)
              => CallsOf(r)' = CallsOf(r)]_vars

\* C5: unsafeInterrupt on an interruptible fiber that is not Done sets
\* interrupted and moves the fiber to Done(Failure(Interrupt(own id))),
\* handing that exit to every observer; interrupted never goes back to
\* false; a second unsafeInterrupt changes nothing.
C5_InterruptCompletesFiber ==
    [][/\ fc.interrupted => fc'.interrupted
       /\ (/\ IsStep("interrupt")
           /\ ~fc.interrupted /\ fc.interruptible /\ fc.status.tag /= "Done")
             => /\ fc'.interrupted
                /\ fc'.status = StatusDone(InterruptExit)
                /\ fc'.observers = <<>>
                /\ draining' =
                      [i \in 1..Len(fc.observers) |->
                          [cb |-> fc.observers[i], exit |-> InterruptExit,
                           reg |-> obsRegs[i]]] \o draining
       /\ (IsStep("interrupt") /\ fc.interrupted)
             => UNCHANGED <<fc, obsRegs, draining, calls>>]_vars

\* A second unsafeInterrupt was made on a fiber that the first one moved to
\* Done(Failure(Interrupt(own id))) and whose observers were notified.
C5_Witness ==
    /\ lastOp.op = "interrupt"
    /\ lastOp.was
    /\ fc.status = StatusDone(InterruptExit)
    /\ draining = <<>>
    /\ Len(calls) >= 2
    /\ \A i \in 1..Len(calls) : calls[i].exit = InterruptExit


(***************************************************************************)
(* JavaScript values that effects yield, fail with and pass around.        *)
(***************************************************************************)
VNum(n) == [num |-> n]

VErr(n) == [err |-> n]

VUndef == [undef |-> TRUE]

VFiber(id) == [fiber |-> id]

VExit(exit) == [exit |-> exit]

VInterruptedException(fiberId) == [interruptedException |-> fiberId]

VArr(values) == [arr |-> values]

\* An exception that a function throws.
VThrown(n) == [thrown |-> n]

\* A failure that carries a cause.
VCause(cause) == [cause |-> cause]

VNull == [null |-> TRUE]

\* A FiberStatus handed on as a value.
VStatus(status) == [status |-> status]

(***************************************************************************)
(* Effect descriptions: the TIO ops.  A function stored in an op is a      *)
(* record that Apply (a continuation) or RunSync (the function of a Sync)  *)
(* evaluates.                                                              *)
(***************************************************************************)
Succeed(value) == [tag |-> "Succeed", value |-> value]

Fail(error) == [tag |-> "Fail", error |-> error]

Sync(f) == [tag |-> "Sync", f |-> f]

FlatMap(tio, f) == [tag |-> "FlatMap", tio |-> tio, f |-> f]

Race(tios) == [tag |-> "Race", tios |-> tios]

Sleep(ms) == [tag |-> "Sleep", ms |-> ms]

Fork(tio) == [tag |-> "Fork", tio |-> tio]

JoinFiber(fiber) == [tag |-> "JoinFiber", fiber |-> fiber]

AwaitFiber(fiber) == [tag |-> "AwaitFiber", fiber |-> fiber]

InterruptFiber(fiber) == [tag |-> "InterruptFiber", fiber |-> fiber]

RaceFirst(tios) == [tag |-> "RaceFirst", tios |-> tios]

FiberStatus(fiber) == [tag |-> "FiberStatus", fiber |-> fiber]

All(tios) == [tag |-> "All", tios |-> tios]

\* register is the sequence of the calls of resolve and reject that the
\* function makes: at once (delay 0) or from a timer.
Async(register) == [tag |-> "Async", register |-> register]

FoldM(tio, onError, onSuccess) ==
    [tag |-> "FoldM", tio |-> tio, onError |-> onError, onSuccess |-> onSuccess]

Ensuring(tio, finalizer) == [tag |-> "Ensuring", tio |-> tio, finalizer |-> finalizer]

SetInterruptible(tio, interruptible) ==
    [tag |-> "SetInterruptible", tio |-> tio, interruptible |-> interruptible]

CheckInterrupt == [tag |-> "CheckInterrupt"]

\* TIO.forkAll(tios)
ForkAll(tios) == All([i \in 1..Len(tios) |-> Fork(tios[i])])

\* The functions that the entry points hand to then and catch.
right(a) == [right |-> a]

left(e) == [left |-> e]

success(a) == [value |-> a]

failure(e) == [error |-> e]

identity(a) == a

Call(fn, a) ==
    CASE fn = "right" -> right(a)
      [] fn = "left" -> left(a)
      [] fn = "success" -> success(a)
      [] fn = "failure" -> failure(a)
      [] fn = "identity" -> identity(a)
      [] fn = "null" -> VNull

\* () => that
KConst(tio) == [k |-> "const", tio |-> tio]

\* a => TIO.succeed(f(a)) with f the identity: the continuation of map(x => x)
KSucceed == [k |-> "succeed"]

\* fiber => TIO.joinFiber(fiber), and so on
KJoin == [k |-> "join"]

KAwait == [k |-> "await"]

KInterrupt == [k |-> "interrupt"]

\* (fiber) => TIO.fiberStatus(fiber)
KStatus == [k |-> "status"]

\* a => k1(a).flatMap(() => k2(a))
KSeq(k1, k2) == [k |-> "seq", k1 |-> k1, k2 |-> k2]

\* (fiber) => TIO.joinFiber(fiber).orElse(TIO.succeed(2))
KJoinOrElse == [k |-> "joinOrElse"]

\* (e) => TIO.fail(e)
KFail == [k |-> "fail"]

\* (c) => c < k ? TIO.fail(c) : TIO.succeed(c)
KFailBefore(k) == [k |-> "failBefore", bound |-> k]

\* ([a, b]) => TIO.succeed([a, b]), the continuation of zip's map
KPair == [k |-> "pair"]

\* (fibers) => TIO.all(...fibers.map((f) => TIO.joinFiber(f)))
KJoinAll == [k |-> "joinAll"]

\* a => TIO.succeed(f(a)), the continuation of map(f)
KMap(fn) == [k |-> "map", f |-> fn]

\* a => TIO.make(() => { log.push(who); return a + 1; })
KVisit(who) == [k |-> "visit", who |-> who]

\* a => k1(a).flatMap(k2)
KBind(k1, k2) == [k |-> "bind", k1 |-> k1, k2 |-> k2]

RECURSIVE Apply(_, _)
Apply(f, a) ==
    CASE f.k = "const" -> f.tio
      [] f.k = "succeed" -> Succeed(a)
      [] f.k = "join" -> JoinFiber(a.fiber)
      [] f.k = "await" -> AwaitFiber(a.fiber)
      [] f.k = "interrupt" -> InterruptFiber(a.fiber)
      [] f.k = "status" -> FiberStatus(a.fiber)
      [] f.k = "seq" -> FlatMap(Apply(f.k1, a), KConst(Apply(f.k2, a)))
      [] f.k = "joinOrElse" ->
            FoldM(JoinFiber(a.fiber), KConst(Succeed(VNum(2))), KSucceed)
      [] f.k = "fail" -> Fail(a)
      [] f.k = "failBefore" -> IF a.num < f.bound THEN Fail(VErr(a.num)) ELSE Succeed(a)
      [] f.k = "pair" -> Succeed(VArr(<<a.arr[1], a.arr[2]>>))
      [] f.k = "joinAll" -> All([i \in 1..Len(a.arr) |-> JoinFiber(a.arr[i].fiber)])
      [] f.k = "map" -> Succeed(Call(f.f, a))
      [] f.k = "visit" ->
            Sync([fn |-> "log", label |-> [who |-> f.who, afterSleep |-> FALSE],
                  ret |-> VNum(a.num + 1)])
      [] f.k = "bind" -> FlatMap(Apply(f.k1, a), f.k2)

\* () => { effects.push(label); return ret; }
FnLog(label, ret) == [fn |-> "log", label |-> label, ret |-> ret]

\* () => { effects.push(label); return ++attempts; }
FnCount(label) == [fn |-> "count", label |-> label, ret |-> VUndef]

\* () => { effects.push(label); throw err; }
FnThrow(label, err) == [fn |-> "throw", label |-> label, ret |-> err]

(***************************************************************************)
(* The state of the run as one record, which the interpreter threads       *)
(* through its calls.                                                      *)
(***************************************************************************)
Heap ==
    [promises |-> promises, microtasks |-> microtasks, timers |-> timers,
     fibers |-> fibers, effects |-> effects, now |-> now, tick |-> tick,
     decided |-> decided, fghost |-> fghost, waits |-> waits, races |-> races,
     alls |-> alls, attempts |-> attempts, ensurings |-> ensurings,
     asyncs |-> asyncs, folds |-> folds]

SetHeap(h) ==
    /\ promises' = h.promises
    /\ microtasks' = h.microtasks
    /\ timers' = h.timers
    /\ fibers' = h.fibers
    /\ effects' = h.effects
    /\ now' = h.now
    /\ tick' = h.tick
    /\ decided' = h.decided
    /\ fghost' = h.fghost
    /\ waits' = h.waits
    /\ races' = h.races
    /\ alls' = h.alls
    /\ attempts' = h.attempts
    /\ ensurings' = h.ensurings
    /\ asyncs' = h.asyncs
    /\ folds' = h.folds

(***************************************************************************)
(* Promises and the job queue.                                             *)
(***************************************************************************)
\* new Promise, Promise.resolve(v), Promise.reject(e)
PromiseNew(h, state, value) ==
    [h |-> [h EXCEPT !.promises =
                Append(@, [state |-> state, value |-> value, reactions |-> <<>>,
                           at |-> h.now, tick |-> h.tick])],
     p |-> Len(h.promises) + 1]

ReactionJob(handler, state, value) ==
    [job |-> "reaction", handler |-> handler, state |-> state, value |-> value]

\* The resolve and reject functions of promise p, called with a value that
\* is no promise: the first call settles p and queues a job for every
\* reaction; later calls do nothing.  p = 0: a promise nobody holds.
PromiseSettle(h, p, state, value) ==
    IF p = 0 \/ h.promises[p].state /= "pending"
    THEN h
    ELSE LET rs == h.promises[p].reactions
         IN  [h EXCEPT !.promises[p] =
                           [state |-> state, value |-> value, reactions |-> <<>>,
                            at |-> h.now, tick |-> h.tick],
                       !.microtasks =
                           @ \o [i \in 1..Len(rs) |-> ReactionJob(rs[i], state, value)]]

\* p.then(onFulfilled, onRejected), the two handlers being one record.
PromiseThen(h, p, handler) ==
    IF h.promises[p].state = "pending"
    THEN [h EXCEPT !.promises[p].reactions = Append(@, handler)]
    ELSE [h EXCEPT !.microtasks =
                       Append(@, ReactionJob(handler, h.promises[p].state,
                                             h.promises[p].value))]

\* A then-handler returned the promise source: the derived promise target
\* follows it, through a job that calls source.then(resolve, reject).
PromiseResolveWith(h, target, source) ==
    [h EXCEPT !.microtasks =
                  Append(@, [job |-> "thenable", target |-> target, source |-> source])]

\* p.then(handler) with its derived promise.
PromiseChain(h, p, handler) ==
    LET d == PromiseNew(h, "pending", VUndef)
    IN  [h |-> PromiseThen(d.h, p, [handler EXCEPT !.target = d.p]), p |-> d.p]

(***************************************************************************)
(* Fibers of the run.  The fiber with id i is fibers[i + 1]; the methods   *)
(* are those of FiberContext, and the observers they call run at once.     *)
(***************************************************************************)
RECURSIVE Interp(_, _)
RECURSIVE RunObserver(_, _, _)
RECURSIVE RunNotify(_, _)
RECURSIVE InterruptEach(_, _)

FiberDone(h, id, exit) ==
    LET r == done(h.fibers[id + 1], exit)
    IN  RunNotify([h EXCEPT !.fibers[id + 1] = r.fc], r.notify)

FiberAddObserver(h, id, callback) ==
    LET r == unsafeAddObserver(h.fibers[id + 1], callback)
    IN  RunNotify([h EXCEPT !.fibers[id + 1] = r.fc], r.notify)

\* An interrupt that also sets the flag of every other fiber.
FiberInterrupt_everyFiber(h, id) ==
    LET r == unsafeInterrupt(h.fibers[id + 1])
    IN  RunNotify([h EXCEPT !.fibers =
                       [i \in 1..Len(@) |->
                           IF i = id + 1 THEN r.fc ELSE [@[i] EXCEPT !.interrupted = TRUE]]],
                  r.notify)

FiberInterrupt(h, id) ==
    LET r == unsafeInterrupt(h.fibers[id + 1])
    IN  RunNotify([h EXCEPT !.fibers[id + 1] = r.fc], r.notify)

RunNotify(h, notify) ==
    IF notify = <<>>
    THEN h
    ELSE RunNotify(RunObserver(h, Head(notify).cb, Head(notify).exit), Tail(notify))

InterruptEach(h, ids) ==
    IF ids = <<>> THEN h ELSE InterruptEach(FiberInterrupt(h, Head(ids)), Tail(ids))

IsInterruptedException(error) == "interruptedException" \in DOMAIN error

\* What a failed exit is rethrown as.
CauseError(cause) ==
    IF cause.tag = "Fail" THEN cause.error ELSE VInterruptedException(cause.fiberId)

\* Propagate an exit into promise p.
SettleWithExit(h, p, exit) ==
    IF exit.tag = "Success"
    THEN PromiseSettle(h, p, "fulfilled", exit.value)
    ELSE PromiseSettle(h, p, "rejected", CauseError(exit.cause))

Without(s, idx) == [i \in 1..(Len(s) - 1) |-> IF i < idx THEN s[i] ELSE s[i + 1]]

\* The observers that Join, Await and raceFirst register on a fiber.
RunObserver(h, callback, exit) ==
    CASE callback.cb = "join" -> SettleWithExit(h, callback.p, exit)
      [] callback.cb = "await" -> PromiseSettle(h, callback.p, "fulfilled", VExit(exit))
      [] callback.cb = "raceFirst" ->
            IF callback.race \in h.decided
            THEN h
            ELSE LET race == h.races[callback.race]
                     h1 == [h EXCEPT !.decided = @ \cup {callback.race},
                                     !.races[callback.race].winner = callback.idx]
                     h2 == InterruptEach(h1, Without(race.children, callback.idx))
                 IN  SettleWithExit(h2, race.p, exit)

\* The callback that Fork hands to queueMicrotask.
ForkStart(h, id, tioToFork) ==
    LET c == Interp(h, tioToFork)
        d1 == PromiseChain(c.h, c.p, [h |-> "forkThen", target |-> 0, fiber |-> id])
        d2 == PromiseChain(d1.h, d1.p, [h |-> "forkCatch", target |-> 0, fiber |-> id])
    IN  [d2.h EXCEPT !.fghost[id + 1].startTick = h.tick,
                     !.fghost[id + 1].body = c.p]

ForkGhost(h) ==
    [forkTick |-> h.tick, startTick |-> 0, body |-> 0, ret |-> 0, dones |-> <<>>]

\* A Fork that runs the child inside the fork step.
InterpFork_sync(h, tioToFork) ==
    LET id == Len(h.fibers)
        h1 == [h EXCEPT !.fibers = Append(@, NewFiberContext(id)),
                        !.fghost = Append(@, ForkGhost(h))]
        h2 == ForkStart(h1, id, tioToFork)
        r == PromiseNew(h2, "fulfilled", VFiber(id))
    IN  [h |-> [r.h EXCEPT !.fghost[id + 1].ret = r.p], p |-> r.p]

InterpFork(h, tioToFork) ==
    LET id == Len(h.fibers)
        h1 == [h EXCEPT !.fibers = Append(@, NewFiberContext(id)),
                        !.fghost = Append(@, ForkGhost(h)),
                        !.microtasks =
                            Append(@, [job |-> "forkStart", fiber |-> id, tio |-> tioToFork])]
        r == PromiseNew(h1, "fulfilled", VFiber(id))
    IN  [h |-> [r.h EXCEPT !.fghost[id + 1].ret = r.p], p |-> r.p]

\* op.tios.map((t) => this.interpret(t))
RECURSIVE InterpEach(_, _)
InterpEach(h, tios) ==
    IF tios = <<>>
    THEN [h |-> h, ps |-> <<>>]
    ELSE LET r == Interp(h, Head(tios))
             rest == InterpEach(r.h, Tail(tios))
         IN  [h |-> rest.h, ps |-> <<r.p>> \o rest.ps]

RECURSIVE ThenEach(_, _, _)
ThenEach(h, ps, handler) ==
    IF ps = <<>> THEN h ELSE ThenEach(PromiseThen(h, Head(ps), handler), Tail(ps), handler)

\* Promise.race(ps)
PromiseRace(h, ps) ==
    LET d == PromiseNew(h, "pending", VUndef)
        h1 == [d.h EXCEPT !.races =
                   Append(@, [kind |-> "race", p |-> d.p, children |-> ps, winner |-> 0])]
    IN  [h |-> ThenEach(h1, ps, [h |-> "settle", target |-> 0, of |-> d.p]), p |-> d.p]

RECURSIVE ThenAll(_, _, _, _)
ThenAll(h, ps, all, idx) ==
    IF idx > Len(ps)
    THEN h
    ELSE ThenAll(PromiseThen(h, ps[idx],
                             [h |-> "allItem", target |-> 0, all |-> all, idx |-> idx]),
                 ps, all, idx + 1)

\* Promise.all(ps)
PromiseAll(h, ps) ==
    LET d == PromiseNew(h, "pending", VUndef)
        h1 == [d.h EXCEPT !.alls =
                   Append(@, [p |-> d.p, children |-> ps,
                              values |-> [i \in 1..Len(ps) |-> VUndef],
                              remaining |-> Len(ps)])]
        h2 == ThenAll(h1, ps, Len(h1.alls), 1)
    IN  [h |-> IF ps = <<>> THEN PromiseSettle(h2, d.p, "fulfilled", VArr(<<>>)) ELSE h2,
         p |-> d.p]

\* A Promise.all that gathers the values in the order they arrive.
AllItem_arrivalOrder(h, handler, state, value) ==
    LET a == h.alls[handler.all]
        values == [a.values EXCEPT ![Len(a.values) - a.remaining + 1] = value]
        h1 == [h EXCEPT !.alls[handler.all].values = values,
                        !.alls[handler.all].remaining = a.remaining - 1]
    IN  IF state = "rejected"
        THEN PromiseSettle(h, a.p, "rejected", value)
        ELSE IF a.remaining = 1
             THEN PromiseSettle(h1, a.p, "fulfilled", VArr(values))
             ELSE h1

\* The reactions of Promise.all to the promise at position idx: a value
\* goes to slot idx and the last value resolves; a rejection rejects.
AllItem(h, handler, state, value) ==
    LET a == h.alls[handler.all]
        values == [a.values EXCEPT ![handler.idx] = value]
        h1 == [h EXCEPT !.alls[handler.all].values = values,
                        !.alls[handler.all].remaining = a.remaining - 1]
    IN  IF state = "rejected"
        THEN PromiseSettle(h, a.p, "rejected", value)
        ELSE IF a.remaining = 1
             THEN PromiseSettle(h1, a.p, "fulfilled", VArr(values))
             ELSE h1

\* op.f(r) of a Sync
RunSync(h, f) ==
    [h |-> [h EXCEPT !.effects = Append(@, [label |-> f.label, tick |-> h.tick]),
                     !.attempts = IF f.fn = "count" THEN @ + 1 ELSE @],
     value |-> IF f.fn = "count" THEN VNum(h.attempts + 1) ELSE f.ret,
     threw |-> f.fn = "throw"]

\* Ghost: a wait on a fiber, as of the moment the wait starts.  Its promise
\* is the next one created.
WaitGhost(h, kind, fiber) ==
    [kind |-> kind, fiber |-> fiber, p |-> Len(h.promises) + 1, tick |-> h.tick,
     late |-> h.fibers[fiber + 1].status.tag = "Done",
     asleep |-> h.fghost[fiber + 1].startTick > 0 /\ h.timers /= <<>>]

InterpJoin(h, fiber) ==
    LET d == PromiseNew([h EXCEPT !.waits = Append(@, WaitGhost(h, "join", fiber))],
                        "pending", VUndef)
    IN  [h |-> FiberAddObserver(d.h, fiber, [cb |-> "join", p |-> d.p]), p |-> d.p]

AwaitInto(h, fiber) ==
    LET d == PromiseNew(h, "pending", VUndef)
    IN  [h |-> FiberAddObserver(d.h, fiber, [cb |-> "await", p |-> d.p]), p |-> d.p]

InterpAwait(h, fiber) ==
    AwaitInto([h EXCEPT !.waits = Append(@, WaitGhost(h, "await", fiber))], fiber)

InterpInterruptFiber(h, fiber) ==
    AwaitInto(FiberInterrupt([h EXCEPT !.waits = Append(@, WaitGhost(h, "interrupt", fiber))],
                             fiber),
              fiber)

\* Status(fiber): the snapshot that unsafeStatus gives, yielded at once.
InterpStatus(h, fiber) ==
    PromiseNew([h EXCEPT !.waits = Append(@, WaitGhost(h, "status", fiber))],
               "fulfilled", VStatus(unsafeStatus(h.fibers[fiber + 1])))

RECURSIVE ForkEach(_, _)
ForkEach(h, tios) ==
    IF tios = <<>>
    THEN [h |-> h, ids |-> <<>>]
    ELSE LET r == InterpFork(h, Head(tios))
             rest == ForkEach(r.h, Tail(tios))
         IN  [h |-> rest.h, ids |-> <<r.h.promises[r.p].value.fiber>> \o rest.ids]

RECURSIVE ObserveEach(_, _, _, _)
ObserveEach(h, ids, race, idx) ==
    IF idx > Len(ids)
    THEN h
    ELSE ObserveEach(FiberAddObserver(h, ids[idx],
                                      [cb |-> "raceFirst", race |-> race, idx |-> idx]),
                     ids, race, idx + 1)

InterpRaceFirst(h, tios) ==
    LET d == PromiseNew(h, "pending", VUndef)
        fk == ForkEach(d.h, tios)
        h1 == [fk.h EXCEPT !.races =
                   Append(@, [kind |-> "raceFirst", p |-> d.p, children |-> fk.ids,
                              winner |-> 0])]
    IN  [h |-> ObserveEach(h1, fk.ids, Len(h1.races), 1), p |-> d.p]

\* op.register(r, resolve, reject): the calls from position idx on.
RECURSIVE Register(_, _, _, _)
Register(h, p, made, idx) ==
    IF idx > Len(made)
    THEN h
    ELSE LET c == made[idx]
             state == IF c.call = "resolve" THEN "fulfilled" ELSE "rejected"
         IN  Register(IF c.delay = 0
                      THEN PromiseSettle(h, p, state, c.value)
                      ELSE [h EXCEPT !.timers =
                                Append(@, [deadline |-> h.now + c.delay, p |-> p,
                                           state |-> state, value |-> c.value])],
                      p, made, idx + 1)

\* One invocation of register for the n-th Async, counted.
CallRegister(h, n, made) ==
    Register([h EXCEPT !.asyncs[n].registered = @ + 1], h.asyncs[n].p, made, 1)

Reversed(made) == [i \in 1..Len(made) |-> made[Len(made) + 1 - i]]

\* An Async of which the later call wins.
InterpAsync_laterCallWins(h, register) ==
    LET d == PromiseNew(h, "pending", VUndef)
        h1 == [d.h EXCEPT !.asyncs =
                   Append(@, [p |-> d.p, register |-> register, registered |-> 0])]
    IN  [h |-> CallRegister(h1, Len(h1.asyncs), Reversed(register)), p |-> d.p]

\* new Promise((resolve, reject) => { op.register(r, resolve, reject); })
InterpAsync(h, register) ==
    LET d == PromiseNew(h, "pending", VUndef)
        h1 == [d.h EXCEPT !.asyncs =
                   Append(@, [p |-> d.p, register |-> register, registered |-> 0])]
    IN  [h |-> CallRegister(h1, Len(h1.asyncs), register), p |-> d.p]

\* this.interpret(finalizer), with the ghost of its start.
InterpFinalizer(h, handler) ==
    LET r == Interp(h, handler.finalizer)
    IN  [h |-> [r.h EXCEPT !.ensurings[handler.ens].starts = Append(@, h.tick),
                           !.ensurings[handler.ens].fins = Append(@, r.p)],
         p |-> r.p]

\* An Ensuring that yields what the finalizer yields.
EnsuringThen_finalizerValue(h, handler, a) ==
    LET r == InterpFinalizer(h, handler)
    IN  PromiseResolveWith(r.h, handler.target, r.p)

\* (a) => this.interpret(finalizer).then(() => a)
EnsuringThen(h, handler, a) ==
    LET r == InterpFinalizer(h, handler)
        d == PromiseChain(r.h, r.p, [h |-> "const", target |-> 0, value |-> a])
    IN  PromiseResolveWith(d.h, handler.target, d.p)

\* (e) => this.interpret(finalizer).then(() => Promise.reject(e))
EnsuringCatch(h, handler, e) ==
    LET r == InterpFinalizer(h, handler)
        d == PromiseChain(r.h, r.p, [h |-> "rejectWith", target |-> 0, error |-> e])
    IN  PromiseResolveWith(d.h, handler.target, d.p)

InterpEnsuring(h, tio, finalizer) ==
    LET c == Interp(h, tio)
        n == Len(c.h.ensurings) + 1
        h1 == [c.h EXCEPT !.ensurings =
                   Append(@, [child |-> c.p, p |-> 0, starts |-> <<>>, fins |-> <<>>])]
        d1 == PromiseChain(h1, c.p,
                           [h |-> "ensuringThen", target |-> 0, ens |-> n,
                            finalizer |-> finalizer])
        d2 == PromiseChain(d1.h, d1.p,
                           [h |-> "ensuringCatch", target |-> 0, ens |-> n,
                            finalizer |-> finalizer])
    IN  [h |-> [d2.h EXCEPT !.ensurings[n].p = d2.p], p |-> d2.p]

Interp(h, tio) ==
    CASE tio.tag = "Succeed" -> PromiseNew(h, "fulfilled", tio.value)
      [] tio.tag = "Fail" -> PromiseNew(h, "rejected", tio.error)
      [] tio.tag = "Sync" ->
            LET r == RunSync(h, tio.f)
            IN  PromiseNew(r.h, IF r.threw THEN "rejected" ELSE "fulfilled", r.value)
      [] tio.tag = "FlatMap" ->
            LET c == Interp(h, tio.tio)
            IN  PromiseChain(c.h, c.p, [h |-> "flatMap", target |-> 0, f |-> tio.f])
      [] tio.tag = "Race" ->
            LET c == InterpEach(h, tio.tios) IN PromiseRace(c.h, c.ps)
      [] tio.tag = "Sleep" ->
            LET d == PromiseNew(h, "pending", VUndef)
            IN  [h |-> [d.h EXCEPT !.timers =
                            Append(@, [deadline |-> h.now + tio.ms, p |-> d.p,
                                       state |-> "fulfilled", value |-> VUndef])],
                 p |-> d.p]
      [] tio.tag = "Fork" -> InterpFork(h, tio.tio)
      [] tio.tag = "JoinFiber" -> InterpJoin(h, tio.fiber)
      [] tio.tag = "AwaitFiber" -> InterpAwait(h, tio.fiber)
      [] tio.tag = "InterruptFiber" -> InterpInterruptFiber(h, tio.fiber)
      [] tio.tag = "RaceFirst" -> InterpRaceFirst(h, tio.tios)
      [] tio.tag = "FiberStatus" -> InterpStatus(h, tio.fiber)
      [] tio.tag = "All" ->
            LET c == InterpEach(h, tio.tios) IN PromiseAll(c.h, c.ps)
      [] tio.tag = "Async" -> InterpAsync(h, tio.register)
      [] tio.tag = "FoldM" ->
            LET c == Interp(h, tio.tio)
            IN  PromiseChain(c.h, c.p,
                             [h |-> "foldM", target |-> 0, onError |-> tio.onError,
                              onSuccess |-> tio.onSuccess])
      [] tio.tag = "Ensuring" -> InterpEnsuring(h, tio.tio, tio.finalizer)
      [] tio.tag = "SetInterruptible" -> Interp(h, tio.tio)
      [] tio.tag = "CheckInterrupt" -> PromiseNew(h, "fulfilled", VUndef)

(***************************************************************************)
(* Jobs of the microtask queue.                                            *)
(***************************************************************************)
\* The handlers of p.then(fn) and p.catch(fn).
OnFulfilled(fn) == [h |-> "then", f |-> fn, target |-> 0]

OnRejected(fn) == [h |-> "catch", f |-> fn, target |-> 0]

\* A catch handler of Fork that takes every error for a typed failure.
ForkCatchExit_alwaysFail(error) == fiberFailure(causeFail(error))

\* The exit that the catch handler of Fork hands to done.
ForkCatchExit(error) ==
    IF IsInterruptedException(error)
    THEN fiberFailure(causeInterrupt(error.interruptedException))
    ELSE fiberFailure(causeFail(error))

\* childFiber.done(exit), called by a handler of Fork.
ForkDone(h, id, exit) ==
    FiberDone([h EXCEPT !.fghost[id + 1].dones = Append(@, exit)], id, exit)

RunReaction(h, handler, state, value) ==
    CASE handler.h = "flatMap" ->
            IF state = "fulfilled"
            THEN LET r == Interp(h, Apply(handler.f, value))
                 IN  PromiseResolveWith(r.h, handler.target, r.p)
            ELSE PromiseSettle(h, handler.target, "rejected", value)
      [] handler.h = "foldM" ->
            IF state = "fulfilled"
            THEN LET r == Interp(h, Apply(handler.onSuccess, value))
                 IN  PromiseResolveWith(r.h, handler.target, r.p)
            ELSE LET h1 == [h EXCEPT !.folds =
                                Append(@, [error |-> value, tick |-> h.tick])]
                     r == Interp(h1, Apply(handler.onError, value))
                 IN  PromiseResolveWith(r.h, handler.target, r.p)
      [] handler.h = "settle" -> PromiseSettle(h, handler.of, state, value)
      [] handler.h = "allItem" -> AllItem(h, handler, state, value)
      [] handler.h = "ensuringThen" ->
            IF state = "fulfilled"
            THEN EnsuringThen(h, handler, value)
            ELSE PromiseSettle(h, handler.target, "rejected", value)
      [] handler.h = "ensuringCatch" ->
            IF state = "rejected"
            THEN EnsuringCatch(h, handler, value)
            ELSE PromiseSettle(h, handler.target, "fulfilled", value)
      [] handler.h = "const" ->
            IF state = "fulfilled"
            THEN PromiseSettle(h, handler.target, "fulfilled", handler.value)
            ELSE PromiseSettle(h, handler.target, "rejected", value)
      [] handler.h = "rejectWith" ->
            IF state = "fulfilled"
            THEN LET r == PromiseNew(h, "rejected", handler.error)
                 IN  PromiseResolveWith(r.h, handler.target, r.p)
            ELSE PromiseSettle(h, handler.target, "rejected", value)
      [] handler.h = "forkThen" ->
            IF state = "fulfilled"
            THEN PromiseSettle(ForkDone(h, handler.fiber, fiberSuccess(value)),
                               handler.target, "fulfilled", VUndef)
            ELSE PromiseSettle(h, handler.target, "rejected", value)
      [] handler.h = "forkCatch" ->
            IF state = "rejected"
            THEN PromiseSettle(ForkDone(h, handler.fiber, ForkCatchExit(value)),
                               handler.target, "fulfilled", VUndef)
            ELSE PromiseSettle(h, handler.target, "fulfilled", value)
      [] handler.h = "then" ->
            IF state = "fulfilled"
            THEN PromiseSettle(h, handler.target, "fulfilled", Call(handler.f, value))
            ELSE PromiseSettle(h, handler.target, "rejected", value)
      [] handler.h = "catch" ->
            IF state = "rejected"
            THEN PromiseSettle(h, handler.target, "fulfilled", Call(handler.f, value))
            ELSE PromiseSettle(h, handler.target, "fulfilled", value)

RunJob(h, job) ==
    CASE job.job = "reaction" -> RunReaction(h, job.handler, job.state, job.value)
      [] job.job = "thenable" ->
            PromiseThen(h, job.source, [h |-> "settle", target |-> 0, of |-> job.target])
      [] job.job = "forkStart" -> ForkStart(h, job.fiber, job.tio)

(***************************************************************************)
(* The programs that are run.                                              *)
(***************************************************************************)
MaxDelay == 2

Delays == 1..MaxDelay

Label(who, afterSleep) == [who |-> who, afterSleep |-> afterSleep]

\* TIO.sleep(d).flatMap(() => TIO.make(() => { completed = true; }).flatMap(() => TIO.succeed(i)))
Slow(i, d) ==
    FlatMap(Sleep(d), KConst(FlatMap(Sync(FnLog(Label(i, TRUE), VUndef)),
                                     KConst(Succeed(VNum(i))))))

\* TIO.sleep(d).flatMap(() => TIO.fail(e))
SlowFail(i, d) == FlatMap(Sleep(d), KConst(Fail(VErr(i))))

\* TIO.make(() => { started = true; return i; })
Logged(i) == Sync(FnLog(Label(i, FALSE), VNum(i)))

\* TIO.succeed(i).map((x) => x)
Mapped(i) == FlatMap(Succeed(VNum(i)), KSucceed)

Children(i) ==
    {Succeed(VNum(i)), Fail(VErr(i)), Logged(i), Mapped(i)}
        \cup {Slow(i, d) : d \in Delays} \cup {SlowFail(i, d) : d \in Delays}

Waiters == {KJoin, KAwait, KInterrupt}

ParentSteps ==
    Waiters
        \cup {KSeq(KConst(Sleep(d)), k) : d \in Delays, k \in Waiters}
        \cup {KSeq(KInterrupt, k) : k \in {KJoin, KAwait}}
        \cup {KSeq(KConst(Logged(0)), KJoin)}

ForkPrograms == {FlatMap(Fork(c), k) : c \in Children(1), k \in ParentSteps}

RacePrograms ==
    {Race(<<a, b>>) : a \in Children(1), b \in Children(2)}
        \cup {RaceFirst(<<a, b>>) : a \in Children(1), b \in Children(2)}

\* this.zip(that)
zip(this, that) == FlatMap(All(<<this, that>>), KPair)

AllPrograms ==
    {All(<<a, b>>) : a \in Children(1), b \in Children(2)}
        \cup {zip(a, b) : a \in Children(1), b \in Children(2)}
        \cup {FlatMap(ForkAll(<<a, b>>), KJoinAll) : a \in Children(1), b \in Children(2)}

\* TIO.make(() => { throw err; })
Thrown(i) == Sync(FnThrow(Label(i, FALSE), VThrown(i)))

Finalizers ==
    {Logged(3), Fail(VErr(3)), Thrown(3)} \cup {Slow(3, d) : d \in Delays}

EnsuringPrograms ==
    {Ensuring(c, f) : c \in Children(1) \cup {Thrown(1)}, f \in Finalizers}

\* this.orElse(that)
orElse(this, that) == FoldM(this, KConst(that), KSucceed)

\* A retry that makes one attempt fewer.
RECURSIVE retry_oneFewer(_, _)
retry_oneFewer(this, n) ==
    IF n <= 1 THEN this ELSE orElse(this, retry_oneFewer(this, n - 1))

\* this.retry(n)
RECURSIVE retry(_, _)
retry(this, n) == IF n <= 0 THEN this ELSE orElse(this, retry(this, n - 1))

MaxRetry == 2

\* An effect that counts its executions and first succeeds at the k-th:
\* TIO.make(() => ++attempts).flatMap((c) => c < k ? TIO.fail(c) : TIO.succeed(c))
Attempt(k) == FlatMap(Sync(FnCount(Label(1, FALSE))), KFailBefore(k))

Retries == (0 - 1)..MaxRetry

FirstSuccesses == 1..(MaxRetry + 2)

RetryPrograms == {retry(Attempt(k), n) : k \in FirstSuccesses, n \in Retries}

\* Recovery from a child that ends with a typed failure, with a defect, or
\* (joined from its fiber) with an interrupt.
OrElsePrograms ==
    {orElse(c, Succeed(VNum(2))) : c \in Children(1) \cup {Thrown(1)}}
        \cup {FlatMap(Fork(Slow(1, d)), KSeq(KInterrupt, KJoinOrElse)) : d \in Delays}

\* A fiber that runs an effect whose function throws, awaited.
DefectPrograms ==
    {FlatMap(Fork(c), KAwait) :
         c \in {Thrown(1), FlatMap(Sleep(1), KConst(Thrown(1))), orElse(Fail(VErr(2)), Thrown(1))}}

MaxCalls == 2

\* The j-th call that a register function makes: resolve(j) or reject(j),
\* at once or after a delay.
CallsAt(j) ==
    {[call |-> c, value |-> IF c = "resolve" THEN VNum(j) ELSE VErr(j), delay |-> d] :
         c \in {"resolve", "reject"}, d \in 0..MaxDelay}

RECURSIVE Registers(_)
Registers(n) ==
    IF n = 0
    THEN {<<>>}
    ELSE LET shorter == Registers(n - 1)
         IN  shorter \cup {Append(r, c) : r \in {x \in shorter : Len(x) = n - 1},
                                          c \in CallsAt(n)}

\* An Async whose continuation, on either outcome, logs and passes the
\* outcome on.
AsyncProgram(register) ==
    FoldM(Async(register),
          KSeq(KConst(Logged(1)), KFail),
          KSeq(KConst(Logged(1)), KSucceed))

AsyncPrograms == {AsyncProgram(r) : r \in Registers(MaxCalls) \ {<<>>}}

\* A child that sleeps in a region that is not interruptible, and a child
\* that reaches a check and a side effect after such a region.
MaskedChildren ==
    {SetInterruptible(Slow(1, d), FALSE) : d \in Delays}
        \cup {FlatMap(SetInterruptible(Slow(1, d), FALSE),
                      KConst(FlatMap(CheckInterrupt, KConst(Logged(1))))) : d \in Delays}

\* The parent interrupts the child, at once or after a sleep.
InterruptSteps == {KInterrupt} \cup {KSeq(KConst(Sleep(d)), KInterrupt) : d \in Delays}

MaskPrograms == {FlatMap(Fork(c), k) : c \in MaskedChildren, k \in InterruptSteps}

\* A child whose finalizer sleeps, interrupted by the parent.
GuardedChildren ==
    {Ensuring(c, Slow(3, d)) : c \in {Succeed(VNum(1)), Fail(VErr(1))}, d \in Delays}

FinalizerInterruptPrograms ==
    {FlatMap(Fork(c), k) : c \in GuardedChildren, k \in InterruptSteps}

\* A child that reaches a check after a sleep, and a side effect behind it:
\* TIO.sleep(d).flatMap(() => checkInterrupt.flatMap(() => TIO.make(...)))
CheckedChildren ==
    {FlatMap(Sleep(d), KConst(FlatMap(CheckInterrupt, KConst(Logged(1))))) : d \in Delays}

\* The parent interrupts the child, or joins it without interrupting it.
CheckPrograms ==
    {FlatMap(Fork(c), k) : c \in CheckedChildren, k \in InterruptSteps \cup {KJoin}}

\* The parent inspects the status of the child: right after the fork, after
\* a sleep, after a join or an await, or before and after an await.
StatusSteps ==
    {KStatus, KSeq(KJoin, KStatus), KSeq(KAwait, KStatus),
     KSeq(KStatus, KSeq(KAwait, KStatus))}
        \cup {KSeq(KConst(Sleep(d)), KStatus) : d \in Delays}

StatusPrograms == {FlatMap(Fork(c), k) : c \in Children(1), k \in StatusSteps}

\* A parent fiber that forks a child, interrupts it and goes on: the parent
\* runs on fiber 0 and the child on fiber 1.
Parents ==
    {FlatMap(Fork(Slow(2, d)), KSeq(k, KConst(Logged(1)))) :
         d \in Delays, k \in InterruptSteps}

NestedPrograms == {FlatMap(Fork(p), KAwait) : p \in Parents}

\* A parent fiber that interrupts its child and then joins it.
JoiningParents ==
    {FlatMap(Fork(Slow(2, d)), KSeq(KInterrupt, KJoin)) : d \in Delays}

\* A fiber whose effect is an Async: its register function calls resolve or
\* reject once, at once or from a timer, or never.
ForkedAsyncs == {Async(r) : r \in Registers(1)}

SettlingPrograms ==
    {FlatMap(Fork(c), KAwait) : c \in JoiningParents \cup ForkedAsyncs}

Programs ==
    ForkPrograms \cup RacePrograms \cup AllPrograms \cup EnsuringPrograms
        \cup RetryPrograms \cup OrElsePrograms \cup DefectPrograms
        \cup AsyncPrograms \cup MaskPrograms \cup FinalizerInterruptPrograms
        \cup CheckPrograms \cup StatusPrograms \cup NestedPrograms
        \cup SettlingPrograms

(***************************************************************************)
(* The event loop: the call of unsafeRun, then microtasks until the queue  *)
(* is empty, then the timer that is due first.                             *)
(***************************************************************************)
\* No runtime besides defaultRuntime, new PromiseRuntime({}), exists.
LIdle ==
    /\ runtimes = <<EmptyServices>>
    /\ provided = <<>>
    /\ seen = <<>>

\* No function of the library has been applied outside the run.
PIdle ==
    /\ input = [kind |-> "None"]
    /\ output = <<>>
    /\ fiberIdCounter = 0
    /\ fiberIds = <<>>

\* Nothing has been run.
RFresh ==
    /\ main = 0
    /\ result = 0
    /\ runs = <<>>
    /\ promises = <<>>
    /\ microtasks = <<>>
    /\ timers = <<>>
    /\ fibers = <<>>
    /\ effects = <<>>
    /\ now = 0
    /\ tick = 0
    /\ decided = {}
    /\ fghost = <<>>
    /\ waits = <<>>
    /\ races = <<>>
    /\ alls = <<>>
    /\ attempts = 0
    /\ ensurings = <<>>
    /\ asyncs = <<>>
    /\ folds = <<>>

RStart ==
    /\ HInit
    /\ LIdle
    /\ PIdle
    /\ program \in Programs
    /\ RFresh

\* The program is run by unsafeRun.
RInit == RStart /\ entry = "unsafeRun"

\* The four entry points, applied to r, the heap and the promise that
\* this.interpret(tio) has yielded; root is that promise, p the promise the
\* entry point returns.
unsafeRun(r) == [h |-> r.h, p |-> r.p, root |-> r.p]

\* A safeRunEither that catches before it wraps the value.
safeRunEither_catchFirst(r) ==
    LET c == PromiseChain(r.h, r.p, OnRejected("left"))
        t == PromiseChain(c.h, c.p, OnFulfilled("right"))
    IN  [h |-> t.h, p |-> t.p, root |-> r.p]

safeRunEither(r) ==
    LET t == PromiseChain(r.h, r.p, OnFulfilled("right"))
        c == PromiseChain(t.h, t.p, OnRejected("left"))
    IN  [h |-> c.h, p |-> c.p, root |-> r.p]

safeRunExit(r) ==
    LET t == PromiseChain(r.h, r.p, OnFulfilled("success"))
        c == PromiseChain(t.h, t.p, OnRejected("failure"))
    IN  [h |-> c.h, p |-> c.p, root |-> r.p]

safeRunUnion(r) ==
    LET c == PromiseChain(r.h, r.p, OnRejected("identity"))
    IN  [h |-> c.h, p |-> c.p, root |-> r.p]

EntryPoints == {"unsafeRun", "safeRunEither", "safeRunExit", "safeRunUnion"}

RunWith(e, h, tio) ==
    LET r == Interp(h, tio)
    IN  CASE e = "unsafeRun" -> unsafeRun(r)
          [] e = "safeRunEither" -> safeRunEither(r)
          [] e = "safeRunExit" -> safeRunExit(r)
          [] e = "safeRunUnion" -> safeRunUnion(r)

\* runtime.unsafeRun(program), or the entry point that entry names
RunMain ==
    /\ main = 0
    /\ LET r == RunWith(entry, [Heap EXCEPT !.tick = @ + 1], program)
       IN  /\ main' = r.root
           /\ result' = r.p
           /\ SetHeap(r.h)
    /\ runs' = Append(runs, [effects |-> Len(effects)])
    /\ UNCHANGED <<program, entry, hvars, lvars, pvars>>

\* The job at the head of the queue is run.
StepMicrotask(h) ==
    RunJob([h EXCEPT !.tick = @ + 1, !.microtasks = Tail(@)], Head(h.microtasks))

RunMicrotask ==
    /\ main /= 0
    /\ microtasks /= <<>>
    /\ SetHeap(StepMicrotask(Heap))
    /\ UNCHANGED <<program, main, entry, result, runs, hvars, lvars, pvars>>

\* The timer of ts that fires next: the earliest deadline, the oldest among
\* equals.
DueTimer(ts) ==
    CHOOSE i \in 1..Len(ts) :
        \A j \in 1..Len(ts) :
            \/ ts[i].deadline < ts[j].deadline
            \/ ts[i].deadline = ts[j].deadline /\ i <= j

NextTimer == DueTimer(timers)

\* The timer that is due first fires.
StepTimer(h) ==
    LET i == DueTimer(h.timers)
        t == h.timers[i]
        h1 == [h EXCEPT !.tick = @ + 1,
                        !.now = IF t.deadline > @ THEN t.deadline ELSE @,
                        !.timers = Without(@, i)]
    IN  PromiseSettle(h1, t.p, t.state, t.value)

\* The callback of a timer: () => resolve(undefined) of Sleep, or a call of
\* resolve or reject that a register function has deferred.
FireTimer ==
    /\ main /= 0
    /\ microtasks = <<>>
    /\ timers /= <<>>
    /\ SetHeap(StepTimer(Heap))
    /\ UNCHANGED <<program, main, entry, result, runs, hvars, lvars, pvars>>

RNext == RunMain \/ RunMicrotask \/ FireTimer

MaxRuns == 2

\* Neither a job nor a timer is left: the run has ended.
Quiescent == main /= 0 /\ microtasks = <<>> /\ timers = <<>>

\* A second call that hands back the promise of the first run.
RunAgain_cached ==
    /\ Quiescent
    /\ Len(runs) < MaxRuns
    /\ runs' = Append(runs, [effects |-> Len(effects)])
    /\ UNCHANGED <<program, entry, main, result, hvars, lvars, pvars>>
    /\ SetHeap(Heap)

\* Once a run has ended, the same description is handed to the entry point
\* again, in the same process.
RunAgain ==
    /\ Quiescent
    /\ Len(runs) < MaxRuns
    /\ LET r == RunWith(entry, [Heap EXCEPT !.tick = @ + 1], program)
       IN  /\ main' = r.root
           /\ result' = r.p
           /\ SetHeap(r.h)
    /\ runs' = Append(runs, [effects |-> Len(effects)])
    /\ UNCHANGED <<program, entry, hvars, lvars, pvars>>

RNextTwice == RunMain \/ RunMicrotask \/ FireTimer \/ RunAgain

SpecTwice == RInit /\ [][RNextTwice]_vars

SpecRun == RInit /\ [][RNext]_vars

\* A turn of the event loop: a job or a timer is pending and one task is
\* run.  Every RunMicrotask and FireTimer step is such a turn, and they are
\* the only steps that advance tick once the program has been started.
LoopTurn ==
    /\ main /= 0
    /\ microtasks /= <<>> \/ timers /= <<>>
    /\ tick' = tick + 1

\* The event loop runs a queued job, and a due timer once the queue is
\* empty, as long as there is one.
SpecRunFair == RInit /\ [][RNext]_vars /\ WF_tick(LoopTurn)

(***************************************************************************)
(* Properties of the run.  The child at position i of a program runs on    *)
(* the fiber with id i - 1, which is fibers[i], and its effects carry      *)
(* who = i; the parent's effects carry who = 0.                            *)
(***************************************************************************)
Settled(p) == p /= 0 /\ promises[p].state /= "pending"

EffectsOf(who) == {e \in 1..Len(effects) : effects[e].label.who = who}

\* C6: once interruptFiber on a forked fiber that is suspended in a sleep has
\* yielded, it has yielded Failure(Interrupt) of that fiber, and no effect
\* of the fiber sequenced after the sleep is executed, then or later.
C6_InterruptedSleepRunsNothingAfter ==
    \A i \in 1..Len(waits) :
        LET w == waits[i]
        IN  (w.kind = "interrupt" /\ w.asleep /\ Settled(w.p)) =>
                /\ promises[w.p].state = "fulfilled"
                /\ promises[w.p].value = VExit(fiberFailure(causeInterrupt(w.fiber)))
                /\ \A e \in EffectsOf(w.fiber + 1) : ~effects[e].label.afterSleep

\* C7: a completed joinFiber or awaitFiber on a fiber finds the fiber Done
\* with some exit x; joinFiber has succeeded with the value of a Success x
\* and failed with the failure of a Failure x; awaitFiber has succeeded
\* with x itself, whatever x is; also when the wait started on a Done fiber.
C7_JoinPropagatesAwaitYieldsExit ==
    \A i \in 1..Len(waits) :
        LET w == waits[i]
            f == fibers[w.fiber + 1]
            p == promises[w.p]
        IN  (w.kind \in {"join", "await"} /\ Settled(w.p)) =>
                /\ f.status.tag = "Done"
                /\ IF w.kind = "await"
                   THEN p.state = "fulfilled" /\ p.value = VExit(f.status.exit)
                   ELSE IF f.status.exit.tag = "Success"
                        THEN p.state = "fulfilled" /\ p.value = f.status.exit.value
                        ELSE p.state = "rejected"
                                 /\ p.value = CauseError(f.status.exit.cause)

\* A joinFiber started on a fiber that had already failed has failed with
\* the fiber's error.
C7_Witness ==
    \E i \in 1..Len(waits) :
        /\ waits[i].kind = "join"
        /\ waits[i].late
        /\ Settled(waits[i].p)
        /\ promises[waits[i].p].state = "rejected"
        /\ fibers[waits[i].fiber + 1].status.exit.tag = "Failure"

\* C8: the step that performs a Fork returns the handle of a fiber that is
\* Running, without waiting for the child; the child's first step runs in a
\* later step, and every effect of the child is executed in a later step.
C8_ForkDefersChild ==
    \A i \in 1..Len(fghost) :
        LET g == fghost[i]
        IN  /\ promises[g.ret].state = "fulfilled"
            /\ promises[g.ret].value = VFiber(i - 1)
            /\ promises[g.ret].tick = g.forkTick
            /\ tick = g.forkTick =>
                   fibers[i].status = StatusRunning /\ g.startTick = 0
            /\ g.startTick /= 0 => g.startTick > g.forkTick
            /\ \A e \in EffectsOf(i) : effects[e].tick > g.forkTick

\* A forked child has started and has executed an effect in its first step.
C8_Witness ==
    \E i \in 1..Len(fghost) :
        /\ fghost[i].startTick > 0
        /\ \E e \in EffectsOf(i) :
               ~effects[e].label.afterSleep /\ effects[e].tick = fghost[i].startTick

\* The promise whose settling is the completion of argument j of a race.
ArgPromise(race, j) ==
    IF race.kind = "race" THEN race.children[j] ELSE fghost[race.children[j] + 1].body

\* Argument i completes before argument j: earlier, or at the same instant
\* and earlier in argument order.
CompletesFirst(race, i, j) ==
    LET pi == promises[ArgPromise(race, i)]
        pj == promises[ArgPromise(race, j)]
    IN  pi.at < pj.at \/ (pi.at = pj.at /\ i <= j)

\* C9: a race or raceFirst whose arguments have all completed has completed
\* with the outcome of the argument that completed first, the earliest in
\* argument order among those that completed at the same instant.
C9_FirstCompletionWins ==
    \A r \in 1..Len(races) :
        LET race == races[r]
            args == 1..Len(race.children)
        IN  (Settled(race.p) /\ \A j \in args : Settled(ArgPromise(race, j))) =>
                \A i \in args :
                    (\A j \in args : CompletesFirst(race, i, j)) =>
                        /\ promises[race.p].state = promises[ArgPromise(race, i)].state
                        /\ promises[race.p].value = promises[ArgPromise(race, i)].value

\* C10: once raceFirst has completed, every losing fiber has been
\* interrupted and is Done, and no effect of a loser is executed in a step
\* after the one in which raceFirst completed.
C10_LosersStopAtCompletion ==
    \A r \in 1..Len(races) :
        LET race == races[r]
        IN  (race.kind = "raceFirst" /\ Settled(race.p)) =>
                \A j \in 1..Len(race.children) :
                    j /= race.winner =>
                        /\ fibers[race.children[j] + 1].interrupted
                        /\ fibers[race.children[j] + 1].status.tag = "Done"
                        /\ \A e \in EffectsOf(j) : effects[e].tick <= promises[race.p].tick



\* C11: an all whose children have all succeeded has succeeded with the
\* array of the children's values in argument order, in whatever order the
\* children completed; so for all, for zip and for the joins of forkAll.
C11_AllKeepsArgumentOrder ==
    \A a \in 1..Len(alls) :
        LET all == alls[a]
        IN  (Settled(all.p)
                 /\ \A i \in 1..Len(all.children) :
                        promises[all.children[i]].state = "fulfilled") =>
                /\ promises[all.p].state = "fulfilled"
                /\ promises[all.p].value =
                       VArr([i \in 1..Len(all.children) |-> promises[all.children[i]].value])

\* An all has succeeded with [1, 2] although its second child completed
\* before its first.
C11_Witness ==
    \E a \in 1..Len(alls) :
        /\ Len(alls[a].children) = 2
        /\ promises[alls[a].p].state = "fulfilled"
        /\ promises[alls[a].p].value = VArr(<<VNum(1), VNum(2)>>)
        /\ promises[alls[a].children[2]].at < promises[alls[a].children[1]].at

\* C12: once an all has failed, every child has completed, and no child
\* executes an effect in a step after the one in which the all failed.
C12_AllFailureStopsSiblings ==
    \A a \in 1..Len(alls) :
        LET all == alls[a]
        IN  promises[all.p].state = "rejected" =>
                \A j \in 1..Len(all.children) :
                    /\ Settled(all.children[j])
                    /\ \A e \in EffectsOf(j) : effects[e].tick <= promises[all.p].tick

\* The children of an all that have failed, by position.
FailedChildren(all) ==
    {j \in 1..Len(all.children) : promises[all.children[j]].state = "rejected"}

\* The causes of the failed children, combined with both in argument order.
RECURSIVE BothUpTo(_, _)
BothUpTo(all, j) ==
    IF j = 0
    THEN causeEmpty
    ELSE both(BothUpTo(all, j - 1),
              IF j \in FailedChildren(all)
              THEN causeFail(promises[all.children[j]].value)
              ELSE causeEmpty)

\* C13: an all of which two or more children have failed has failed with
\* the causes of all the failed children combined with both in argument
\* order.
C13_AllCombinesCausesWithBoth ==
    \A a \in 1..Len(alls) :
        LET all == alls[a]
        IN  (/\ \A j \in 1..Len(all.children) : Settled(all.children[j])
             /\ Cardinality(FailedChildren(all)) >= 2
             /\ Settled(all.p)) =>
                /\ promises[all.p].state = "rejected"
                /\ promises[all.p].value = VCause(BothUpTo(all, Len(all.children)))

\* C14: the finalizer of an Ensuring is started at most once, only after
\* the child has completed, and it has been started once the Ensuring has
\* completed.
C14_FinalizerStartedOnce ==
    \A n \in 1..Len(ensurings) :
        LET ens == ensurings[n]
        IN  /\ Len(ens.starts) <= 1
            /\ \A i \in 1..Len(ens.starts) :
                   Settled(ens.child) /\ ens.starts[i] > promises[ens.child].tick
            /\ Settled(ens.p) => Len(ens.starts) = 1

\* The causes that a failure with error e may be: typed or defect.
CausesOf(e) == {causeFail(e), causeDie(e)}

\* C15: an Ensuring of which the child and the finalizer have both failed
\* has failed with Then(childCause, finCause), the child's cause first.
C15_EnsuringKeepsChildCause ==
    \A n \in 1..Len(ensurings) :
        LET ens == ensurings[n]
        IN  (/\ Settled(ens.p)
             /\ promises[ens.child].state = "rejected"
             /\ \E i \in 1..Len(ens.fins) : promises[ens.fins[i]].state = "rejected") =>
                /\ promises[ens.p].state = "rejected"
                /\ promises[ens.p].value \in
                       {VCause(sequential(l, r)) :
                            l \in CausesOf(promises[ens.child].value),
                            r \in CausesOf(promises[ens.fins[1]].value)}

\* C16: an Ensuring that has completed and whose finalizer has not failed
\* has the outcome of its child, success with the child's value or failure
\* with the child's error, and completed after its finalizer completed.
C16_EnsuringYieldsChildOutcome ==
    \A n \in 1..Len(ensurings) :
        LET ens == ensurings[n]
        IN  (/\ Settled(ens.p)
             /\ \A i \in 1..Len(ens.fins) : promises[ens.fins[i]].state /= "rejected") =>
                /\ Len(ens.fins) = 1
                /\ promises[ens.fins[1]].state = "fulfilled"
                /\ promises[ens.fins[1]].tick < promises[ens.p].tick
                /\ promises[ens.p].state = promises[ens.child].state
                /\ promises[ens.p].value = promises[ens.child].value

\* An Ensuring has failed with its child's error after a finalizer that
\* slept and succeeded; another state: it has succeeded with the child's
\* value.
C16_Witness ==
    \E n \in 1..Len(ensurings) :
        /\ Settled(ensurings[n].p)
        /\ promises[ensurings[n].child].state = "rejected"
        /\ Len(ensurings[n].fins) = 1
        /\ promises[ensurings[n].fins[1]].state = "fulfilled"
        /\ promises[ensurings[n].fins[1]].at > promises[ensurings[n].child].at
        /\ promises[ensurings[n].p].value = promises[ensurings[n].child].value

\* The attempts that retry(n) may make.
AttemptsAllowed(n) == IF n <= 0 THEN 1 ELSE n + 1

\* C17: retry(n) of an effect that first succeeds at its k-th execution
\* never executes it more than min(k, n + 1) times (once when n <= 0), and
\* once completed it has executed it exactly that often: it has succeeded
\* with the k-th value when k is within the attempts, and otherwise failed
\* with the failure of the last attempt.
C17_RetryAttempts ==
    \A k \in FirstSuccesses, n \in Retries :
        program = retry(Attempt(k), n) =>
            IF k <= AttemptsAllowed(n)
            THEN /\ attempts <= k
                 /\ Settled(main) =>
                        /\ attempts = k
                        /\ promises[main].state = "fulfilled"
                        /\ promises[main].value = VNum(k)
            ELSE /\ attempts <= AttemptsAllowed(n)
                 /\ Settled(main) =>
                        /\ attempts = AttemptsAllowed(n)
                        /\ promises[main].state = "rejected"
                        /\ promises[main].value = VErr(AttemptsAllowed(n))

\* retry(MaxRetry) of an effect that always fails has failed after
\* MaxRetry + 1 executions.
C17_Witness ==
    /\ program = retry(Attempt(MaxRetry + 2), MaxRetry)
    /\ Settled(main)
    /\ promises[main].state = "rejected"
    /\ attempts = MaxRetry + 1

IsThrown(error) == "thrown" \in DOMAIN error

\* C18: the error handler of a FoldM is called only with the error of a
\* typed failure, never with a thrown defect or with an interrupt.
C18_HandlerOnlyOnTypedFail ==
    \A i \in 1..Len(folds) :
        ~IsThrown(folds[i].error) /\ ~IsInterruptedException(folds[i].error)

\* C19: a fiber whose effect ended with an exception thrown by the function
\* of a Sync is Done with exit Failure(Die(err)).
C19_ThrownIsDie ==
    \A i \in 1..Len(fibers) :
        (/\ fibers[i].status.tag = "Done"
         /\ Settled(fghost[i].body)
         /\ promises[fghost[i].body].state = "rejected"
         /\ IsThrown(promises[fghost[i].body].value)) =>
            fibers[i].status.exit = fiberFailure(causeDie(promises[fghost[i].body].value))

\* The call of a register function that happens first: the least delay,
\* the earliest among equals.
FirstCall(register) ==
    CHOOSE i \in 1..Len(register) :
        \A j \in 1..Len(register) :
            \/ register[i].delay < register[j].delay
            \/ register[i].delay = register[j].delay /\ i <= j

\* The outcome of a promise is that of the call c.
OutcomeIs(p, c) ==
    /\ promises[p].state = IF c.call = "resolve" THEN "fulfilled" ELSE "rejected"
    /\ promises[p].value = c.value

\* C20: register has been invoked once for every Async executed, and an
\* Async that has completed has the outcome of the first call that register
\* made, whatever it called later; its continuation runs at most once, and
\* has run once, with that outcome, when the program has completed.
C20_AsyncResumesOnce ==
    /\ \A n \in 1..Len(asyncs) :
           /\ asyncs[n].registered = 1
           /\ Settled(asyncs[n].p) =>
                  OutcomeIs(asyncs[n].p, asyncs[n].register[FirstCall(asyncs[n].register)])
    /\ \A r \in Registers(MaxCalls) \ {<<>>} :
           program = AsyncProgram(r) =>
               /\ Cardinality(EffectsOf(1)) <= 1
               /\ Settled(main) =>
                      /\ Cardinality(EffectsOf(1)) = 1
                      /\ OutcomeIs(main, r[FirstCall(r)])

\* register has called reject and later resolve, or the reverse; all its
\* calls are made and the program has completed.
C20_Witness ==
    \E n \in 1..Len(asyncs) :
        /\ Len(asyncs[n].register) = 2
        /\ asyncs[n].register[1].call /= asyncs[n].register[2].call
        /\ asyncs[n].register[2].delay < asyncs[n].register[1].delay
        /\ timers = <<>>
        /\ Settled(main)
        /\ Cardinality(EffectsOf(1)) = 1

(***************************************************************************)
(* The service registry.  A services record is a function from the ids     *)
(* that are bound to the services bound to them.                           *)
(***************************************************************************)
TagIds == {"Logger", "Clock"}

MaxService == 2

Services == 1..MaxService

MaxRuntimes == 3

MaxSeen == 2

tag(id) == [id |-> id]

\* { ...services, [id]: service }
Bind(services, id, service) ==
    [k \in DOMAIN services \cup {id} |-> IF k = id THEN service ELSE services[k]]

\* A provideService that writes the binding into the receiver's own record.
provideService_inPlace(rts, this, t, service) ==
    Append([rts EXCEPT ![this] = Bind(@, t.id, service)], Bind(rts[this], t.id, service))

\* this.provideService(t, service): the store of runtimes after the call;
\* the new runtime is the last one.
provideService(rts, this, t, service) ==
    Append(rts, Bind(rts[this], t.id, service))

\* Runtime.withServices(services)
withServices(rts, services) == Append(rts, services)

\* The services records handed to Runtime.withServices.
ServiceMaps == {Bind(EmptyServices, id, s) : id \in TagIds, s \in Services}

CallProvideService ==
    /\ Len(runtimes) < MaxRuntimes
    /\ \E this \in 1..Len(runtimes), id \in TagIds, service \in Services :
          /\ runtimes' = provideService(runtimes, this, tag(id), service)
          /\ provided' = Append(provided,
                                [this |-> this, tag |-> tag(id), service |-> service,
                                 before |-> runtimes[this], new |-> Len(runtimes) + 1])
    /\ UNCHANGED <<seen, hvars, rvars, pvars>>

CallWithServices ==
    /\ Len(runtimes) < MaxRuntimes
    /\ \E services \in ServiceMaps : runtimes' = withServices(runtimes, services)
    /\ UNCHANGED <<provided, seen, hvars, rvars, pvars>>

\* An effect run on runtimes[this] is handed r = this.services.
RunService ==
    /\ Len(seen) < MaxSeen
    /\ \E this \in 1..Len(runtimes) :
          seen' = Append(seen, [runtime |-> this, r |-> runtimes[this],
                                after |-> Len(provided)])
    /\ UNCHANGED <<runtimes, provided, hvars, rvars, pvars>>

LNext == CallProvideService \/ CallWithServices \/ RunService

\* C21: provideService(tag, service) returns a new runtime whose registry is
\* the receiver's registry with tag.id bound to service, an earlier binding
\* of the same id being replaced, and it leaves the receiver's registry as
\* it was: every effect run on a runtime, defaultRuntime included, is handed
\* the same services whether it runs before or after the call.
C21_ProvideServiceCopies ==
    /\ \A n \in 1..Len(provided) :
          LET c == provided[n]
          IN  /\ DOMAIN runtimes[c.new] = DOMAIN c.before \cup {c.tag.id}
              /\ runtimes[c.new][c.tag.id] = c.service
              /\ \A k \in DOMAIN c.before \ {c.tag.id} :
                    runtimes[c.new][k] = c.before[k]
              /\ runtimes[c.this] = c.before
    /\ \A a, b \in 1..Len(seen) :
          seen[a].runtime = seen[b].runtime => seen[a].r = seen[b].r

\* An effect ran on a runtime before and after a provideService on it that
\* replaced a binding of the receiver.
C21_Witness ==
    \E n \in 1..Len(provided), a, b \in 1..Len(seen) :
        /\ seen[a].runtime = provided[n].this
        /\ seen[b].runtime = provided[n].this
        /\ seen[a].after < n
        /\ seen[b].after >= n
        /\ provided[n].tag.id \in DOMAIN provided[n].before
        /\ provided[n].before[provided[n].tag.id] /= provided[n].service

(***************************************************************************)
(* A whole run as a function of the program: the call of the entry point,  *)
(* then the event loop until neither a job nor a timer is left.            *)
(***************************************************************************)
EmptyHeap ==
    [promises |-> <<>>, microtasks |-> <<>>, timers |-> <<>>, fibers |-> <<>>,
     effects |-> <<>>, now |-> 0, tick |-> 0, decided |-> {}, fghost |-> <<>>,
     waits |-> <<>>, races |-> <<>>, alls |-> <<>>, attempts |-> 0,
     ensurings |-> <<>>, asyncs |-> <<>>, folds |-> <<>>]

RECURSIVE RunToEnd(_)
RunToEnd(h) ==
    IF h.microtasks /= <<>> THEN RunToEnd(StepMicrotask(h))
    ELSE IF h.timers /= <<>> THEN RunToEnd(StepTimer(h))
    ELSE h

\* What a caller of the entry point e observes of the program tio: the state
\* and value of the returned promise and the side effects in their order.
Observe(e, tio) ==
    LET r == RunWith(e, [EmptyHeap EXCEPT !.tick = @ + 1], tio)
        end == RunToEnd(r.h)
    IN  [state |-> end.promises[r.p].state,
         value |-> end.promises[r.p].value,
         effects |-> [i \in 1..Len(end.effects) |-> end.effects[i].label]]

\* The program is run by any of the four entry points.
REntry == RStart /\ entry \in EntryPoints

SpecEntry == REntry /\ [][RNext]_vars

\* What an entry point reports for the outcome o of unsafeRun.
Reported(e, o) ==
    CASE e = "unsafeRun" -> [state |-> o.state, value |-> o.value]
      [] e = "safeRunEither" ->
            [state |-> "fulfilled",
             value |-> IF o.state = "fulfilled" THEN right(o.value) ELSE left(o.value)]
      [] e = "safeRunExit" ->
            [state |-> "fulfilled",
             value |-> IF o.state = "fulfilled" THEN success(o.value) ELSE failure(o.value)]
      [] e = "safeRunUnion" -> [state |-> "fulfilled", value |-> o.value]

\* C22: the four entry points report the same outcome of an effect: where
\* unsafeRun resolves to v, safeRunEither resolves to Right(v), safeRunExit
\* to Success(v) and safeRunUnion to v; where unsafeRun rejects with e, they
\* resolve to Left(e), Failure(e) and e; the promise of a safeRun entry
\* point is never rejected, and it is settled once the run has ended with
\* the promise of unsafeRun settled.
C22_EntryPointsAgree ==
    LET o == Observe("unsafeRun", program)
    IN  /\ Settled(result) =>
              /\ o.state /= "pending"
              /\ promises[result].state = Reported(entry, o).state
              /\ promises[result].value = Reported(entry, o).value
        /\ (result /= 0 /\ entry /= "unsafeRun") => promises[result].state /= "rejected"
        /\ (main /= 0 /\ microtasks = <<>> /\ timers = <<>> /\ o.state /= "pending")
              => Settled(result)

\* safeRunEither has reported the failure of an effect as Left(e).
C22_Witness ==
    /\ entry = "safeRunEither"
    /\ Settled(result)
    /\ promises[main].state = "rejected"
    /\ promises[result].value = left(promises[main].value)

\* The labels of the side effects that run k of the program has executed.
EffectsOfRun(k) ==
    LET from == runs[k].effects + 1
        to == IF k < Len(runs) THEN runs[k + 1].effects ELSE Len(effects)
    IN  [i \in 1..(to + 1 - from) |-> effects[from + i - 1].label]

\* The programs whose functions read a counter that outlives a run.
Counting == RetryPrograms

\* C23: building a description executes none of the functions it holds:
\* before a runtime runs it, no side effect has been executed, no register
\* function and no error handler has been called and no fiber exists.  The
\* functions are executed while the description is run, and again on each
\* run: a later run executes side effects if the first one did, and the
\* same ones in the same order unless they read a counter that an earlier
\* run has changed.
C23_DescriptionsAreLazy ==
    /\ main = 0 =>
          /\ effects = <<>>
          /\ asyncs = <<>>
          /\ folds = <<>>
          /\ attempts = 0
          /\ fibers = <<>>
          /\ promises = <<>>
    /\ \A k \in 2..Len(runs) :
          (k < Len(runs) \/ Quiescent) =>
              /\ EffectsOfRun(1) /= <<>> => EffectsOfRun(k) /= <<>>
              /\ program \notin Counting => EffectsOfRun(k) = EffectsOfRun(1)

\* A description with a side effect has been run twice, to the end.
C23_Witness ==
    /\ Len(runs) = 2
    /\ Quiescent
    /\ Len(EffectsOfRun(1)) > 1
    /\ EffectsOfRun(2) = EffectsOfRun(1)

(***************************************************************************)
(* map and flatMap.  The two sides of a law are run one after the other,   *)
(* in one process, and what unsafeRun shows of them is compared.           *)
(***************************************************************************)
\* A map that also hands the error to the function.
mapTIO_mapsErrors(tio, fn) == FoldM(tio, KMap(fn), KMap(fn))

\* tio.map(fn)
mapTIO(tio, fn) == FlatMap(tio, KMap(fn))

\* this.as(b), b being named by the function () => b
as(this, b) == mapTIO(this, b)

\* this.timeout(ms)
timeout(this, ms) == Race(<<this, as(Sleep(ms), "null")>>)

LawEffects ==
    {Succeed(VNum(1)), Fail(VErr(1)), Logged(1), Thrown(1)}
        \cup {Slow(1, d) : d \in Delays} \cup {SlowFail(1, d) : d \in Delays}

LawConts == {KSucceed, KFail, KVisit(2), KVisit(3), KConst(Slow(2, 1))}

LawValues == {VNum(1), VNum(2)}

\* The effects of LawEffects that fail.
FailingEffects == {Fail(VErr(1)), Thrown(1)} \cup {SlowFail(1, d) : d \in Delays}

LawInstances ==
    [kind : {"mapIdentity", "rightIdentity"}, e : LawEffects]
        \cup [kind : {"leftIdentity"}, a : LawValues, k : LawConts]
        \cup [kind : {"associativity"}, e : LawEffects, k : LawConts, h : LawConts]
        \cup [kind : {"failure"}, e : FailingEffects, k : LawConts]

Lhs(i) ==
    CASE i.kind = "mapIdentity" -> mapTIO(i.e, "identity")
      [] i.kind = "rightIdentity" -> FlatMap(i.e, KSucceed)
      [] i.kind = "leftIdentity" -> FlatMap(Succeed(i.a), i.k)
      [] i.kind = "associativity" -> FlatMap(FlatMap(i.e, i.k), i.h)
      [] i.kind = "failure" -> FlatMap(i.e, i.k)
      [] i.kind = "timeout" -> timeout(i.e, i.ms)

Rhs(i) ==
    CASE i.kind = "mapIdentity" -> i.e
      [] i.kind = "rightIdentity" -> i.e
      [] i.kind = "leftIdentity" -> Apply(i.k, i.a)
      [] i.kind = "associativity" -> FlatMap(i.e, KBind(i.k, i.h))
      [] i.kind = "failure" -> i.e
      [] i.kind = "timeout" -> RaceFirst(<<i.e, as(Sleep(i.ms), "null")>>)

\* The left side of a law is the program; output will hold the promise of
\* its run.
LawInit ==
    /\ HInit
    /\ LIdle
    /\ input \in LawInstances
    /\ output = [lhs |-> 0]
    /\ fiberIdCounter = 0
    /\ fiberIds = <<>>
    /\ program = Lhs(input)
    /\ entry = "unsafeRun"
    /\ RFresh

\* Once the left side has run to the end, the right side is run.
RunRhs ==
    /\ Quiescent
    /\ Len(runs) = 1
    /\ LET r == RunWith(entry, [Heap EXCEPT !.tick = @ + 1], Rhs(input))
       IN  /\ main' = r.root
           /\ result' = r.p
           /\ SetHeap(r.h)
    /\ runs' = Append(runs, [effects |-> Len(effects)])
    /\ output' = [lhs |-> result]
    /\ UNCHANGED <<program, entry, input, fiberIdCounter, fiberIds, hvars, lvars>>

LawNext == RunMain \/ RunMicrotask \/ FireTimer \/ RunRhs

\* Both sides of the law have run to the end.
BothRun == Len(runs) = 2 /\ Quiescent /\ output.lhs /= 0

\* C24: up to the outcome that is observed and the sequence of the side
\* effects that are executed, e.map(x => x) is e, e.flatMap(succeed) is e,
\* succeed(a).flatMap(k) is k(a), and e.flatMap(k).flatMap(h) is
\* e.flatMap(a => k(a).flatMap(h)); when e fails, e.flatMap(k) is e: k is
\* not applied and the failure of e is the result.
C24_MonadLaws ==
    BothRun =>
        /\ promises[output.lhs].state /= "pending"
        /\ promises[output.lhs].state = promises[result].state
        /\ promises[output.lhs].value = promises[result].value
        /\ EffectsOfRun(1) = EffectsOfRun(2)
        /\ input.kind = "failure" => promises[result].state = "rejected"

\* Both sides of associativity have run the side effects of e, k and h.
C24_Witness ==
    /\ input.kind = "associativity"
    /\ BothRun
    /\ Len(EffectsOfRun(1)) = 3
    /\ EffectsOfRun(2) = EffectsOfRun(1)
    /\ promises[result].state = "fulfilled"

(***************************************************************************)
(* The functions of cause.ts on cause trees.                               *)
(***************************************************************************)
MaxError == 2

MaxNodes == 2

\* A FiberId as makeFiberId builds it.
FiberId(id) == [id |-> id, startTime |-> 0]

CauseLeaves ==
    {causeEmpty, causeDie(VThrown(1)), causeInterrupt(FiberId(0))}
        \cup {causeFail(VErr(e)) : e \in 1..MaxError}

\* The cause trees with n Then or Both nodes, built as object literals: a
\* child may be Empty.
RECURSIVE CausesOfSize(_)
CausesOfSize(n) ==
    IF n = 0
    THEN CauseLeaves
    ELSE UNION {[tag : {"Then", "Both"}, left : CausesOfSize(i),
                 right : CausesOfSize(n - 1 - i)] : i \in 0..(n - 1)}

Causes == UNION {CausesOfSize(n) : n \in 0..MaxNodes}

\* The functions handed to map: e => e + 1 and e => 0.
ErrorMaps == {"next", "zero"}

CallErrorMap(f, e) ==
    CASE f = "next" -> VErr(e.err + 1)
      [] f = "zero" -> VErr(0)

IsNode(c) == c.tag \in {"Then", "Both"}

isEmpty(cause) == cause.tag = "Empty"

RECURSIVE failures_rightFirst(_)
\* A failures that walks the right subtree first.
failures_rightFirst(cause) ==
    CASE cause.tag \in {"Empty", "Die", "Interrupt"} -> <<>>
      [] cause.tag = "Fail" -> <<cause.error>>
      [] cause.tag \in {"Then", "Both"} ->
            failures_rightFirst(cause.right) \o failures_rightFirst(cause.left)

RECURSIVE failures(_)
failures(cause) ==
    CASE cause.tag \in {"Empty", "Die", "Interrupt"} -> <<>>
      [] cause.tag = "Fail" -> <<cause.error>>
      [] cause.tag \in {"Then", "Both"} -> failures(cause.left) \o failures(cause.right)

RECURSIVE defects(_)
defects(cause) ==
    CASE cause.tag \in {"Empty", "Fail", "Interrupt"} -> <<>>
      [] cause.tag = "Die" -> <<cause.defect>>
      [] cause.tag \in {"Then", "Both"} -> defects(cause.left) \o defects(cause.right)

RECURSIVE interruptors(_)
interruptors(cause) ==
    CASE cause.tag \in {"Empty", "Fail", "Die"} -> <<>>
      [] cause.tag = "Interrupt" -> <<cause.fiberId>>
      [] cause.tag \in {"Then", "Both"} ->
            interruptors(cause.left) \o interruptors(cause.right)

RECURSIVE map(_, _)
map(cause, f) ==
    CASE cause.tag = "Empty" -> causeEmpty
      [] cause.tag = "Fail" -> causeFail(CallErrorMap(f, cause.error))
      [] cause.tag = "Die" -> causeDie(cause.defect)
      [] cause.tag = "Interrupt" -> causeInterrupt(cause.fiberId)
      [] cause.tag = "Then" -> sequential(map(cause.left, f), map(cause.right, f))
      [] cause.tag = "Both" -> both(map(cause.left, f), map(cause.right, f))

\* A squash that looks for defects first.
squash_defectsFirst(cause) ==
    IF Len(defects(cause)) > 0 THEN defects(cause)[1]
    ELSE IF Len(failures(cause)) > 0 THEN failures(cause)[1]
    ELSE IF Len(interruptors(cause)) > 0 THEN interruptors(cause)[1]
    ELSE VUndef

squash(cause) ==
    IF Len(failures(cause)) > 0 THEN failures(cause)[1]
    ELSE IF Len(defects(cause)) > 0 THEN defects(cause)[1]
    ELSE IF Len(interruptors(cause)) > 0 THEN interruptors(cause)[1]
    ELSE VUndef

\* One function is applied: sequential and both to the children of the
\* cause drawn, the other functions to the cause itself.
ApplySequential ==
    /\ output.fn = "none"
    /\ IsNode(input.cause)
    /\ output' = [fn |-> "sequential",
                  value |-> sequential(input.cause.left, input.cause.right)]
    /\ UNCHANGED <<input, fiberIdCounter, fiberIds, hvars, rvars, lvars>>

ApplyBoth ==
    /\ output.fn = "none"
    /\ IsNode(input.cause)
    /\ output' = [fn |-> "both", value |-> both(input.cause.left, input.cause.right)]
    /\ UNCHANGED <<input, fiberIdCounter, fiberIds, hvars, rvars, lvars>>

ApplyFailures ==
    /\ output.fn = "none"
    /\ output' = [fn |-> "failures", value |-> failures(input.cause)]
    /\ UNCHANGED <<input, fiberIdCounter, fiberIds, hvars, rvars, lvars>>

ApplyDefects ==
    /\ output.fn = "none"
    /\ output' = [fn |-> "defects", value |-> defects(input.cause)]
    /\ UNCHANGED <<input, fiberIdCounter, fiberIds, hvars, rvars, lvars>>

ApplyInterruptors ==
    /\ output.fn = "none"
    /\ output' = [fn |-> "interruptors", value |-> interruptors(input.cause)]
    /\ UNCHANGED <<input, fiberIdCounter, fiberIds, hvars, rvars, lvars>>

ApplyMap ==
    /\ output.fn = "none"
    /\ output' = [fn |-> "map", value |-> map(input.cause, input.f)]
    /\ UNCHANGED <<input, fiberIdCounter, fiberIds, hvars, rvars, lvars>>

ApplySquash ==
    /\ output.fn = "none"
    /\ output' = [fn |-> "squash", value |-> squash(input.cause)]
    /\ UNCHANGED <<input, fiberIdCounter, fiberIds, hvars, rvars, lvars>>

ApplyIsEmpty ==
    /\ output.fn = "none"
    /\ output' = [fn |-> "isEmpty", value |-> isEmpty(input.cause)]
    /\ UNCHANGED <<input, fiberIdCounter, fiberIds, hvars, rvars, lvars>>

CauseNext ==
    \/ ApplySequential
    \/ ApplyIsEmpty
    \/ ApplyBoth
    \/ ApplyFailures
    \/ ApplyDefects
    \/ ApplyInterruptors
    \/ ApplyMap
    \/ ApplySquash

\* What a combinator that builds a node named t yields for l and r, as the
\* claim states it.
Combined(t, l, r) ==
    IF l = causeEmpty THEN r
    ELSE IF r = causeEmpty THEN l
    ELSE [tag |-> t, left |-> l, right |-> r]

\* C25: Empty is a two-sided identity of sequential and of both:
\* sequential(Empty, c) = c = sequential(c, Empty), and the same for both;
\* for causes that are not Empty, sequential(l, r) is the node Then(l, r) and
\* both(l, r) the node Both(l, r), with l on the left and r on the right.
C25_EmptyIsIdentity ==
    /\ output.fn = "sequential" =>
          output.value = Combined("Then", input.cause.left, input.cause.right)
    /\ output.fn = "both" =>
          output.value = Combined("Both", input.cause.left, input.cause.right)

\* sequential has been applied to Empty and a cause with a node, and has
\* returned that cause.
C25_Witness ==
    /\ output.fn = "sequential"
    /\ input.cause.left = causeEmpty
    /\ IsNode(input.cause.right)
    /\ output.value = input.cause.right

\* The leaves of a cause from left to right, as a preorder walk meets them.
RECURSIVE LeavesOf(_)
LeavesOf(c) == IF IsNode(c) THEN LeavesOf(c.left) \o LeavesOf(c.right) ELSE <<c>>

IsTagged(t, c) == c.tag = t

FailLeaves(c) == SelectSeq(LeavesOf(c), LAMBDA x : IsTagged("Fail", x))

DieLeaves(c) == SelectSeq(LeavesOf(c), LAMBDA x : IsTagged("Die", x))

InterruptLeaves(c) == SelectSeq(LeavesOf(c), LAMBDA x : IsTagged("Interrupt", x))

\* C26: failures(c), defects(c) and interruptors(c) are the errors of the
\* Fail leaves, the defects of the Die leaves and the fiber ids of the
\* Interrupt leaves of c, in the order of a left-to-right walk;
\* failures(map(c, f)) is f applied to each element of failures(c), and map
\* changes neither defects(c) nor interruptors(c).
C26_ExtractorsInPreorder ==
    /\ output.fn = "failures" =>
          output.value = [i \in 1..Len(FailLeaves(input.cause)) |->
                              FailLeaves(input.cause)[i].error]
    /\ output.fn = "defects" =>
          output.value = [i \in 1..Len(DieLeaves(input.cause)) |->
                              DieLeaves(input.cause)[i].defect]
    /\ output.fn = "interruptors" =>
          output.value = [i \in 1..Len(InterruptLeaves(input.cause)) |->
                              InterruptLeaves(input.cause)[i].fiberId]
    /\ output.fn = "map" =>
          /\ failures(output.value) =
                [i \in 1..Len(failures(input.cause)) |->
                     CallErrorMap(input.f, failures(input.cause)[i])]
          /\ defects(output.value) = defects(input.cause)
          /\ interruptors(output.value) = interruptors(input.cause)

\* failures has listed two different errors of a cause, left before right.
C26_Witness ==
    /\ output.fn = "failures"
    /\ IsNode(input.cause)
    /\ Len(output.value) = 2
    /\ output.value[1] /= output.value[2]
    /\ output.value[1] = failures(input.cause.left)[1]

\* map has changed the errors of a cause that also holds a defect.
C26_MapWitness ==
    /\ output.fn = "map"
    /\ Len(failures(input.cause)) = 2
    /\ Len(defects(input.cause)) = 1
    /\ failures(output.value) /= failures(input.cause)

\* C27: squash(c) is the first element of failures(c) if c has a Fail leaf,
\* else the first defect if it has a Die leaf, else the fiber id of the first
\* Interrupt leaf, else undefined; a Fail leaf wins over a Die or Interrupt
\* leaf that stands before it.
C27_SquashPriority ==
    output.fn = "squash" =>
        LET c == input.cause
        IN  output.value =
                IF \E i \in 1..Len(LeavesOf(c)) : LeavesOf(c)[i].tag = "Fail"
                THEN FailLeaves(c)[1].error
                ELSE IF \E i \in 1..Len(LeavesOf(c)) : LeavesOf(c)[i].tag = "Die"
                THEN DieLeaves(c)[1].defect
                ELSE IF \E i \in 1..Len(LeavesOf(c)) : LeavesOf(c)[i].tag = "Interrupt"
                THEN InterruptLeaves(c)[1].fiberId
                ELSE VUndef

\* squash has returned the error of a Fail leaf that stands behind a Die
\* leaf and an Interrupt leaf.
C27_Witness ==
    /\ output.fn = "squash"
    /\ Len(LeavesOf(input.cause)) = 3
    /\ LeavesOf(input.cause)[1].tag = "Die"
    /\ LeavesOf(input.cause)[2].tag = "Interrupt"
    /\ LeavesOf(input.cause)[3].tag = "Fail"
    /\ output.value = LeavesOf(input.cause)[3].error

(***************************************************************************)
(* Fiber ids.                                                              *)
(***************************************************************************)
MaxIds == 6

MaxTime == 1

\* What Date.now() may return.
Times == 0..MaxTime

\* A makeFiberId that reads the counter and leaves it as it is.
makeFiberId_noIncrement(counter, time) ==
    [fiberId |-> [id |-> counter, startTime |-> time], counter |-> counter]

\* makeFiberId() with the counter at counter and Date.now() = time: the id
\* returned and the counter afterwards.
makeFiberId(counter, time) ==
    [fiberId |-> [id |-> counter, startTime |-> time], counter |-> counter + 1]

CallMakeFiberId ==
    /\ Len(fiberIds) < MaxIds
    /\ \E time \in Times :
          LET r == makeFiberId(fiberIdCounter, time)
          IN  /\ fiberIdCounter' = r.counter
              /\ fiberIds' = Append(fiberIds, [by |-> "makeFiberId", fiberId |-> r.fiberId])
    /\ UNCHANGED <<input, output, hvars, rvars, lvars>>

\* new FiberContext()
ConstructFiberContext ==
    /\ Len(fiberIds) < MaxIds
    /\ \E time \in Times :
          LET r == makeFiberId(fiberIdCounter, time)
              context == NewFiberContext(r.fiberId)
          IN  /\ fiberIdCounter' = r.counter
              /\ fiberIds' = Append(fiberIds, [by |-> "FiberContext", fiberId |-> context.id])
    /\ UNCHANGED <<input, output, hvars, rvars, lvars>>

IdNext == CallMakeFiberId \/ ConstructFiberContext

\* C28: over any sequence of makeFiberId calls and FiberContext
\* constructions in one process, the ids handed out are strictly increasing
\* in the order of the calls, hence no two of them are equal.
C28_FiberIdsIncrease ==
    \A i, j \in 1..Len(fiberIds) :
        i < j => fiberIds[i].fiberId.id < fiberIds[j].fiberId.id

\* A FiberContext was constructed between two calls of makeFiberId, all at
\* the same time of the clock.
C28_Witness ==
    \E i \in 1..Len(fiberIds) :
        /\ i + 2 <= Len(fiberIds)
        /\ fiberIds[i].by = "makeFiberId"
        /\ fiberIds[i + 1].by = "FiberContext"
        /\ fiberIds[i + 2].by = "makeFiberId"
        /\ fiberIds[i].fiberId.startTime = fiberIds[i + 2].fiberId.startTime
        /\ fiberIds[i + 1].fiberId.startTime = fiberIds[i].fiberId.startTime

\* The child of the program runs on the fiber with id 0 and has begun.
ChildStarted == Len(fibers) >= 1 /\ fghost[1].startTick > 0

\* The parent has interrupted the child after tick t.
InterruptedAfter(t) ==
    \E i \in 1..Len(waits) : waits[i].kind = "interrupt" /\ waits[i].tick > t

\* The child is inside its region SetInterruptible(Slow(1, d), false): it
\* has begun and the side effect that ends the region has not run.
InRegion ==
    /\ program \in MaskPrograms
    /\ ChildStarted
    /\ \A e \in EffectsOf(1) : ~effects[e].label.afterSleep

\* C29: while a fiber runs the body of SetInterruptible(child, false), an
\* interrupt sets its flag but does not move it to Done(Failure(Interrupt)):
\* the fiber stays Running until the region is left; the interrupt that
\* arrived in the region fires at the next check after it, so the side
\* effect behind that check does not run.
C29_RegionDefersInterrupt ==
    /\ (InRegion /\ InterruptedAfter(fghost[1].startTick)) =>
          /\ fibers[1].interrupted
          /\ fibers[1].status.tag = "Running"
    /\ (program \in MaskPrograms
           /\ \E i \in 1..Len(waits) : waits[i].kind = "interrupt" /\ waits[i].asleep)
          => \A e \in EffectsOf(1) : effects[e].label.afterSleep

\* The finalizer of the child's Ensuring has begun and has not completed.
InFinalizer ==
    /\ program \in FinalizerInterruptPrograms
    /\ ChildStarted
    /\ Len(ensurings) = 1
    /\ Len(ensurings[1].fins) = 1
    /\ ~Settled(ensurings[1].fins[1])

\* C30: a fiber that is interrupted while it executes the finalizer of an
\* Ensuring is not Done before the finalizer has completed; it ends with
\* Interrupt only afterwards.
C30_FinalizerNotCutShort ==
    (InFinalizer /\ InterruptedAfter(ensurings[1].starts[1])) =>
        /\ fibers[1].interrupted
        /\ fibers[1].status.tag = "Running"

(***************************************************************************)
(* The unsubscribe returned by unsafeAddObserver, called again (Spec).     *)
(***************************************************************************)
\* C37: the unsubscribe returned by unsafeAddObserver is idempotent and
\* removes only its own registration: a second or later call of the same
\* unsubscribe leaves the observer list as the first call left it, so no
\* other registration, a second one of the same callback included, is
\* removed by it.
C37_UnsubscribeIdempotent ==
    [][(IsStep("unsubscribe") /\ unsubCount[lastOp'.reg] > 0)
          => UNCHANGED <<fc, obsRegs>>]_vars

(***************************************************************************)
(* The causes that the constructors build (SpecCause).                     *)
(***************************************************************************)
\* The causes that sequential and both build from n pairs of built causes.
RECURSIVE BuiltOfSize(_)
BuiltOfSize(n) ==
    IF n = 0
    THEN CauseLeaves
    ELSE UNION {{sequential(l, r) : l \in BuiltOfSize(i), r \in BuiltOfSize(n - 1 - i)}
                \cup {both(l, r) : l \in BuiltOfSize(i), r \in BuiltOfSize(n - 1 - i)} :
                    i \in 0..(n - 1)}

\* The causes built from empty, fail, die, interrupt with sequential, both
\* and map.
Built ==
    LET combined == UNION {BuiltOfSize(n) : n \in 0..MaxNodes}
    IN  combined \cup {map(c, f) : c \in combined, f \in ErrorMaps}

RECURSIVE NoEmptyChild(_)
NoEmptyChild(c) ==
    IsNode(c) => /\ c.left.tag /= "Empty" /\ NoEmptyChild(c.left)
                 /\ c.right.tag /= "Empty" /\ NoEmptyChild(c.right)

\* The shape of a cause: its tags, without the errors, defects and ids.
RECURSIVE Shape(_)
Shape(c) ==
    IF IsNode(c) THEN <<c.tag, Shape(c.left), Shape(c.right)>> ELSE <<c.tag>>

\* C40: a cause built from empty, fail, die, interrupt with sequential, both
\* and map has no Empty node as a child of a Then or Both node; sequential,
\* both and map applied to such causes yield such a cause; for such a cause
\* isEmpty holds exactly when failures, defects and interruptors are all
\* empty, and map yields a cause of the same shape.
C40_NoEmptyChild ==
    /\ input.cause \in Built => NoEmptyChild(input.cause)
    /\ (output.fn \in {"sequential", "both"}
           /\ input.cause.left \in Built /\ input.cause.right \in Built)
          => NoEmptyChild(output.value)
    /\ (output.fn = "isEmpty" /\ input.cause \in Built)
          => (output.value <=> /\ failures(input.cause) = <<>>
                               /\ defects(input.cause) = <<>>
                               /\ interruptors(input.cause) = <<>>)
    /\ (output.fn = "map" /\ input.cause \in Built)
          => /\ NoEmptyChild(output.value)
             /\ Shape(output.value) = Shape(input.cause)

\* map has been applied to a built cause with a Then and a Both node and has
\* changed its errors; the cause is not empty.
C40_Witness ==
    /\ output.fn = "map"
    /\ input.cause \in Built
    /\ input.cause.tag = "Then"
    /\ input.cause.right.tag = "Both"
    /\ output.value /= input.cause
    /\ ~isEmpty(input.cause)

\* isEmpty has been applied to a cause with a node whose leaves are all
\* Empty: the extractors find nothing and isEmpty is false.
C40_LiteralWitness ==
    /\ output.fn = "isEmpty"
    /\ IsNode(input.cause)
    /\ input.cause \notin Built
    /\ failures(input.cause) = <<>>
    /\ defects(input.cause) = <<>>
    /\ interruptors(input.cause) = <<>>
    /\ ~output.value

(***************************************************************************)
(* timeout, run before raceFirst(self, sleep(ms).as(null)) (SpecTimeout).  *)
(***************************************************************************)
\* The effects that are given a time limit.
TimeoutSelves ==
    {Succeed(VNum(1)), Fail(VErr(1)), Logged(1)}
        \cup {Slow(1, d) : d \in Delays} \cup {SlowFail(1, d) : d \in Delays}

TimeoutInstances == [kind : {"timeout"}, e : TimeoutSelves, ms : Delays]

TimeoutInit ==
    /\ HInit
    /\ LIdle
    /\ input \in TimeoutInstances
    /\ output = [lhs |-> 0]
    /\ fiberIdCounter = 0
    /\ fiberIds = <<>>
    /\ program = Lhs(input)
    /\ entry = "unsafeRun"
    /\ RFresh

\* The run of self.timeout(ms) has ended and the sleep has elapsed first.
TimedOut ==
    /\ Len(runs) = 1
    /\ Quiescent
    /\ promises[result].state = "fulfilled"
    /\ promises[result].value = VNull

\* C32: self.timeout(ms) behaves as raceFirst(self, sleep(ms).as(null)):
\* when the sleep elapses first it yields null and self has been
\* interrupted, and the two forms yield the same outcome and execute the
\* same side effects.
C32_TimeoutIsRaceFirst ==
    /\ TimedOut => \E i \in 1..Len(fibers) : fibers[i].interrupted
    /\ BothRun =>
          /\ promises[output.lhs].state = promises[result].state
          /\ promises[output.lhs].value = promises[result].value
          /\ EffectsOfRun(1) = EffectsOfRun(2)

(***************************************************************************)
(* The losers of a Race (SpecRun).                                         *)
(***************************************************************************)
\* C33: the Race primitive interrupts every losing child on the first
\* completion and waits for the losers before it propagates the winner's
\* outcome: no child of a race executes a side effect in a step after the
\* one in which the race has completed.
C33_RaceStopsLosers ==
    \A r \in 1..Len(races) :
        LET race == races[r]
        IN  (race.kind = "race" /\ Settled(race.p)) =>
                \A j \in 1..Len(race.children) :
                    \A e \in EffectsOf(j) : effects[e].tick <= promises[race.p].tick

(***************************************************************************)
(* CheckInterrupt on an interrupted fiber (SpecRun).                       *)
(***************************************************************************)
\* The parent has interrupted the child while the child slept ahead of its
\* check.
InterruptedBeforeCheck ==
    /\ program \in CheckPrograms
    /\ \E i \in 1..Len(waits) : waits[i].kind = "interrupt" /\ waits[i].asleep

\* C34: a fiber that was interrupted before it reaches CheckInterrupt
\* fails there with Interrupt(own id), so its effect ends with that
\* interruption and the side effect sequenced after the check is not
\* executed; a fiber that was not interrupted passes the check and goes on.
C34_CheckInterruptIsSafePoint ==
    /\ InterruptedBeforeCheck =>
          /\ EffectsOf(1) = {}
          /\ Settled(fghost[1].body) =>
                /\ promises[fghost[1].body].state = "rejected"
                /\ promises[fghost[1].body].value = VInterruptedException(0)
    /\ (program \in CheckPrograms /\ waits /= <<>> /\ waits[1].kind = "join"
           /\ Settled(fghost[1].body))
          => /\ promises[fghost[1].body].state = "fulfilled"
             /\ Cardinality(EffectsOf(1)) = 1

(***************************************************************************)
(* The status of a fiber that waits (SpecRun).                             *)
(***************************************************************************)
\* The fiber with id i - 1 has begun its effect and waits for a timer: the
\* effect has not settled, no job is queued and a timer is pending, so no
\* step of any interpreter is executing.
WaitsAtBoundary(i) ==
    /\ fghost[i].startTick > 0
    /\ ~Settled(fghost[i].body)
    /\ microtasks = <<>>
    /\ timers /= <<>>

\* C36: the status of a fiber follows Running <-> Suspended -> Done: a
\* fiber that is not Done is Suspended while it waits at an Async or Sleep
\* boundary or in a join-like wait, and Running only while its interpreter
\* steps execute.
C36_SuspendedWhileWaiting ==
    \A i \in 1..Len(fibers) :
        (WaitsAtBoundary(i) /\ fibers[i].status.tag /= "Done") =>
            unsafeStatus(fibers[i]) = StatusSuspended

(***************************************************************************)
(* fiberStatus (SpecRun).                                                  *)
(***************************************************************************)
\* The step inspects the status of a fiber.
TakesStatus ==
    /\ Len(waits') = Len(waits) + 1
    /\ waits'[Len(waits')].kind = "status"

\* What the fiberStatus calls made so far have yielded.
StatusYields ==
    \A i \in 1..Len(waits) :
        LET w == waits[i]
            f == fibers[w.fiber + 1]
            p == promises[w.p]
        IN  w.kind = "status" =>
                /\ p.state = "fulfilled"
                /\ p.tick = w.tick
                /\ ~w.late => p.value = VStatus(StatusRunning)
                /\ w.late =>
                      /\ p.value = VStatus(StatusDone(f.status.exit))
                      /\ \A j \in 1..Len(waits) :
                            (waits[j].kind = "await" /\ waits[j].fiber = w.fiber
                                 /\ Settled(waits[j].p))
                                => p.value.status.exit = promises[waits[j].p].value.exit
                /\ \A j \in 1..(i - 1) :
                      (waits[j].kind \in {"join", "await"} /\ waits[j].fiber = w.fiber
                           /\ promises[waits[j].p].tick < w.tick
                           /\ Settled(waits[j].p))
                          => w.late

Interrupts ==
    /\ Len(waits') = Len(waits) + 1
    /\ waits'[Len(waits')].kind = "interrupt"

\* C35: interrupting a fiber changes only that fiber: the step that
\* interrupts a child leaves the interrupted flag and the status of every
\* other fiber, the parent's included, as they are; the parent is never
\* interrupted, receives the child's exit, Failure(Interrupt(child)), as a
\* value, runs the effects sequenced after the interrupt and ends with
\* their outcome.
C35_InterruptChangesOnlyItsFiber ==
    [][/\ Interrupts =>
             /\ Len(fibers') = Len(fibers)
             /\ \A j \in 1..Len(fibers) :
                   j /= waits'[Len(waits')].fiber + 1 => fibers'[j] = fibers[j]
             /\ fibers'[waits'[Len(waits')].fiber + 1].interrupted
       /\ \A i \in 1..Len(waits') :
             (waits'[i].kind = "interrupt" /\ ~waits'[i].late) =>
                 /\ promises'[waits'[i].p].state = "fulfilled"
                 /\ promises'[waits'[i].p].value =
                        VExit(fiberFailure(causeInterrupt(waits'[i].fiber)))
       /\ program \in NestedPrograms =>
             /\ Len(fibers') >= 1 => ~fibers'[1].interrupted
             /\ (Quiescent' /\ Len(fibers') >= 1)
                   => /\ fibers'[1].status = StatusDone(fiberSuccess(VNum(1)))
                      /\ Cardinality(EffectsOf(1)') = 1]_vars

\* A parent fiber has interrupted its sleeping child and has ended with
\* success after its own side effect, the child being Done with Interrupt.
C35_Witness ==
    /\ program \in NestedPrograms
    /\ Quiescent
    /\ \E i \in 1..Len(waits) :
          waits[i].kind = "interrupt" /\ waits[i].asleep /\ waits[i].fiber = 1
    /\ fibers[2].status = StatusDone(fiberFailure(causeInterrupt(1)))
    /\ fibers[1].status = StatusDone(fiberSuccess(VNum(1)))
    /\ ~fibers[1].interrupted

(***************************************************************************)
(* Natural completion against interruption of a forked fiber (SpecRun).    *)
(***************************************************************************)
\* The exit that the runtime hands to done for the settled promise p of a
\* fiber's effect.
OutcomeExit(p) ==
    IF promises[p].state = "fulfilled"
    THEN fiberSuccess(promises[p].value)
    ELSE IF IsInterruptedException(promises[p].value)
         THEN fiberFailure(causeInterrupt(promises[p].value.interruptedException))
         ELSE fiberFailure(causeFail(promises[p].value))

\* The ticks at which interruptFiber was performed on the fiber with id id.
InterruptTicks(id) ==
    {waits[i].tick : i \in {j \in 1..Len(waits) :
                                waits[j].kind = "interrupt" /\ waits[j].fiber = id}}

\* The effect of fiber i has settled, and no interrupt came before that.
SettledFirst(i) ==
    /\ fghost[i].body /= 0
    /\ Settled(fghost[i].body)
    /\ \A t \in InterruptTicks(i - 1) : promises[fghost[i].body].tick < t

\* An interrupt came while the effect of fiber i had not settled.
InterruptedFirst(i) ==
    \E t \in InterruptTicks(i - 1) :
        fghost[i].body = 0 \/ ~Settled(fghost[i].body)
            \/ t < promises[fghost[i].body].tick

\* C38: the first event wins between the natural completion and the
\* interruption of a forked fiber: interrupted before its effect settles,
\* the fiber is Done with Failure(Interrupt(own id)) and stays so when the
\* effect settles later; when the effect settles first, the exit is the
\* effect's outcome and a later interrupt does not change it.  Every
\* observer is given exactly one exit: every wait on the fiber that has
\* completed has completed with the exit of the fiber.
C38_FirstEventWins ==
    \A i \in 1..Len(fibers) :
        /\ InterruptedFirst(i) =>
              fibers[i].status = StatusDone(fiberFailure(causeInterrupt(i - 1)))
        /\ (SettledFirst(i) /\ fibers[i].status.tag = "Done") =>
              fibers[i].status.exit = OutcomeExit(fghost[i].body)
        /\ \A w \in 1..Len(waits) :
              (waits[w].fiber = i - 1 /\ waits[w].kind \in {"await", "interrupt"}
                   /\ Settled(waits[w].p))
                  => promises[waits[w].p].value = VExit(fibers[i].status.exit)

(***************************************************************************)
(* The completion of a forked fiber (SpecRunFair).                         *)
(***************************************************************************)
\* No program of the model creates more fibers.
MaxFibers == 2

\* The effect of the fiber with id i - 1 has settled.
EffectSettled(i) ==
    /\ Len(fibers) >= i
    /\ fghost[i].body /= 0
    /\ Settled(fghost[i].body)

FiberIsDone(i) == Len(fibers) >= i /\ fibers[i].status.tag = "Done"

\* What the handlers of Fork have done for the fibers so far.
DoneByRuntime ==
    \A i \in 1..Len(fibers) :
        LET dones == fghost[i].dones
        IN  /\ Len(dones) <= 1
            /\ dones /= <<>> =>
                  /\ EffectSettled(i)
                  /\ dones[1] = OutcomeExit(fghost[i].body)
            /\ (EffectSettled(i) /\ Quiescent) => Len(dones) = 1
            /\ (FiberIsDone(i) /\ ~fibers[i].interrupted) =>
                  /\ EffectSettled(i)
                  /\ dones = <<fibers[i].status.exit>>

\* C39: every forked fiber whose effect settles eventually reaches Done,
\* and the runtime calls done exactly once for it: with Success(value) when
\* the effect resolves, Failure(Interrupt(fiberId)) when it rejects with an
\* InterruptedException, Failure(Fail(error)) for any other rejection; a
\* fiber that is Done and was not interrupted has a settled effect, so the
\* fiber of an Async that never calls back is never Done.
C39_SettledFiberCompletes ==
    /\ []DoneByRuntime
    /\ \A i \in 1..MaxFibers : EffectSettled(i) ~> FiberIsDone(i)

\* A fiber that joined its interrupted child has been completed by the
\* runtime with Failure(Interrupt(child)), and the run has ended.
C39_Witness ==
    /\ program \in SettlingPrograms
    /\ Quiescent
    /\ Len(fibers) = 2
    /\ fghost[1].dones = <<fiberFailure(causeInterrupt(1))>>
    /\ fibers[1].status = StatusDone(fiberFailure(causeInterrupt(1)))
    /\ ~fibers[1].interrupted

\* The run of a fiber whose Async never calls back has ended: the fiber is
\* Running and the awaitFiber on it is pending.
C39_NeverWitness ==
    /\ program \in SettlingPrograms
    /\ Quiescent
    /\ Len(fibers) = 1
    /\ fghost[1].body /= 0
    /\ ~Settled(fghost[1].body)
    /\ fibers[1].status = StatusRunning
    /\ ~Settled(main)

\* The harness runs no program.
RIdle ==
    /\ program = [tag |-> "None"]
    /\ entry = "unsafeRun"
    /\ main = 0
    /\ result = 0
    /\ runs = <<>>
    /\ promises = <<>>
    /\ microtasks = <<>>
    /\ timers = <<>>
    /\ fibers = <<>>
    /\ effects = <<>>
    /\ now = 0
    /\ tick = 0
    /\ decided = {}
    /\ fghost = <<>>
    /\ waits = <<>>
    /\ races = <<>>
    /\ alls = <<>>
    /\ attempts = 0
    /\ ensurings = <<>>
    /\ asyncs = <<>>
    /\ folds = <<>>

Init == HInit /\ RIdle /\ LIdle /\ PIdle

Next == HNext

Spec == Init /\ [][Next]_vars

\* The runtimes and their registries, no program being run.
SpecServices == Init /\ [][LNext]_vars

\* Calls of makeFiberId and constructions of FiberContext, in any order.
SpecIds == Init /\ [][IdNext]_vars

\* The functions of cause.ts, applied to a cause drawn from Causes.
CauseInit ==
    /\ HInit
    /\ RIdle
    /\ LIdle
    /\ input \in [cause : Causes, f : ErrorMaps]
    /\ output = [fn |-> "none"]
    /\ fiberIdCounter = 0
    /\ fiberIds = <<>>

SpecCause == CauseInit /\ [][CauseNext]_vars

\* The laws of map and flatMap: the left side is run to the end, then the
\* right side, both by unsafeRun.
SpecLaws == LawInit /\ [][LawNext]_vars

\* self.timeout(ms) is run, then raceFirst(self, sleep(ms).as(null)).
SpecTimeout == TimeoutInit /\ [][LawNext]_vars

=============================================================================
